---- MODULE Spec2Model ----
(***************************************************************************)
(* The Vivarium world system (src/main.js, classes WorldObject and World): *)
(* the entity store, the containment tree, the relationship ledger and the *)
(* turn engine.                                                            *)
(*                                                                         *)
(* JavaScript objects are heap cells.  A WorldObject is the cell <<g, id>>  *)
(* where id is its identifier and g is the allocation epoch, which changes *)
(* only at import(): between two imports the store never deletes a key and *)
(* createObject refuses a used id, so <<g, id>> names one object.           *)
(***************************************************************************)
EXTENDS Integers, Sequences, FiniteSets, TLC

VARIABLES
    objects,          \* World.objects: the Map's keys in insertion order
    gen,              \* allocation epoch of the store's objects; changes only at import()
    cells,            \* the WorldObjects still referenced from the world
    parent,           \* WorldObject.parent, per cell
    containedObjects, \* WorldObject.containedObjects, per cell
    name,             \* WorldObject.name, per cell
    description,      \* WorldObject.description, per cell
    relationships,    \* WorldObject.relationships, per cell
    edgeTicks,        \* history: per edge, the ticks run since it was pushed
    rootObject,       \* World.rootObject
    playerObjectId,   \* World.playerObjectId
    simulationTime,   \* World.simulationTime
    saved,            \* localStorage item 'vivarium_world'
    lastResult,       \* what the last operation returned to its caller
    lastCall,         \* history: the operation the client called last
    llm,              \* window.llmManager: "unavailable", "responding" or "failing"
    pc,               \* where the processPlayerAction call in flight is suspended
    playerAction,     \* its argument
    branch,           \* its local branch
    depthGroups,      \* simulateBottomUp: the depth groups still to process, in order
    promises,         \* simulateBottomUp: the simulateObject calls awaited
    results,          \* simulateBottomUp: the Map results, as entries in order
    requests,         \* history: the capability calls of the turn, in order
    response,         \* history: the text callGroq returned to analyzeRelationshipChanges
    suspended         \* the other processPlayerAction calls in flight, each at its await

worldVars == <<objects, gen, cells, parent, containedObjects, name, description,
               relationships, edgeTicks, rootObject, playerObjectId,
               simulationTime>>
turnVars == <<lastCall, llm, pc, playerAction, branch, depthGroups, promises,
              results, requests, response, suspended>>
vars == <<objects, gen, cells, parent, containedObjects, name, description,
          relationships, edgeTicks, rootObject, playerObjectId, simulationTime,
          saved, lastResult, lastCall, llm, pc, playerAction, branch,
          depthGroups, promises, results, requests, response, suspended>>

(***************************************************************************)
(* JavaScript values                                                       *)
(***************************************************************************)
NullId == "null"              \* null where an id string is expected
UndefinedId == "undefined"    \* undefined where an id string is expected
NullCell == <<-1, "null">>         \* null where an object is expected
UndefinedCell == <<-1, "undefined">>   \* undefined where an object is expected

Truthy(c) == c # NullCell /\ c # UndefinedCell
TruthyId(i) == i # NullId /\ i # UndefinedId /\ i # ""

\* a string value the || and ?: operators take as false: undefined, or the
\* empty string
Falsy(s) == s = UndefinedId \/ s = ""

CellId(c) == c[2]

\* Array.prototype.indexOf: first position of x in s, -1 if absent
IndexOf(s, x) ==
    IF \E i \in 1..Len(s) : s[i] = x
    THEN (CHOOSE i \in 1..Len(s) : s[i] = x /\ \A j \in 1..(i-1) : s[j] # x) - 1
    ELSE -1

\* Array.prototype.splice(index, 1) with a 0-based index
Splice1(s, index) ==
    [i \in 1..(Len(s) - 1) |-> IF i <= index THEN s[i] ELSE s[i + 1]]

SeqToSet(s) == {s[i] : i \in 1..Len(s)}

(***************************************************************************)
(* JavaScript numbers, exactly: a number is the fraction <<n, d>> in lowest *)
(* terms with d > 0; null where a number is expected is <<0, 0>>.           *)
(***************************************************************************)
NullNum == <<0, 0>>

RECURSIVE GCD(_, _)
GCD(a, b) == IF b = 0 THEN a ELSE GCD(b, a % b)

Abs(n) == IF n < 0 THEN 0 - n ELSE n

Num(n, d) == LET g == GCD(Abs(n), d) IN <<n \div g, d \div g>>
Integer(n) == <<n, 1>>

\* ToNumber: null converts to 0 in arithmetic and relational operators
ToNumber(x) == IF x = NullNum THEN Integer(0) ELSE x

\* a < b and a <= b: false when either side is NaN (denominator 0)
Less(a, b) ==
    /\ ToNumber(a)[2] # 0 /\ ToNumber(b)[2] # 0
    /\ ToNumber(a)[1] * ToNumber(b)[2] < ToNumber(b)[1] * ToNumber(a)[2]
LessEq(a, b) ==
    /\ ToNumber(a)[2] # 0 /\ ToNumber(b)[2] # 0
    /\ ToNumber(a)[1] * ToNumber(b)[2] <= ToNumber(b)[1] * ToNumber(a)[2]
Plus(a, b) == Num(ToNumber(a)[1] * ToNumber(b)[2] + ToNumber(b)[1] * ToNumber(a)[2],
                  ToNumber(a)[2] * ToNumber(b)[2])
Minus(a, b) == Num(ToNumber(a)[1] * ToNumber(b)[2] - ToNumber(b)[1] * ToNumber(a)[2],
                   ToNumber(a)[2] * ToNumber(b)[2])
Times(a, b) == Num(ToNumber(a)[1] * ToNumber(b)[1], ToNumber(a)[2] * ToNumber(b)[2])
\* a / b for b > 0
Over(a, b) == Num(ToNumber(a)[1] * ToNumber(b)[2], ToNumber(a)[2] * ToNumber(b)[1])
\* Math.min
MathMin(a, b) == IF Less(b, a) THEN b ELSE a

(***************************************************************************)
(* JavaScript strings                                                      *)
(***************************************************************************)
\* String.prototype.includes
Includes(s, sub) ==
    \E i \in 1..(Len(s) - Len(sub) + 1) : SubSeq(s, i, i + Len(sub) - 1) = sub

LowerChar(c) ==
    CASE c = "A" -> "a" [] c = "B" -> "b" [] c = "C" -> "c" [] c = "D" -> "d"
      [] c = "E" -> "e" [] c = "F" -> "f" [] c = "G" -> "g" [] c = "H" -> "h"
      [] c = "I" -> "i" [] c = "J" -> "j" [] c = "K" -> "k" [] c = "L" -> "l"
      [] c = "M" -> "m" [] c = "N" -> "n" [] c = "O" -> "o" [] c = "P" -> "p"
      [] c = "Q" -> "q" [] c = "R" -> "r" [] c = "S" -> "s" [] c = "T" -> "t"
      [] c = "U" -> "u" [] c = "V" -> "v" [] c = "W" -> "w" [] c = "X" -> "x"
      [] c = "Y" -> "y" [] c = "Z" -> "z" [] OTHER -> c

\* String.prototype.toLowerCase, character by character
RECURSIVE LowerCased(_)
LowerCased(s) ==
    IF Len(s) = 0 THEN s
    ELSE LowerChar(SubSeq(s, 1, 1)) \o LowerCased(SubSeq(s, 2, Len(s)))

\* LowerCased computed once for the ids and names of the starting scenario
\* and the names the inferred changes use
KnownStrings ==
    {"ocean", "island_1", "dock_1", "boat_1", "sam", "wheel", "ship_cat",
     "cat_tail", "lighthouse_1", "The Endless Ocean", "Fog-Shrouded Island",
     "Weathered Dock", "Small Fishing Boat", "Sam", "Steering Wheel",
     "Ship Cat", "Cat Tail", "Abandoned Lighthouse", "small fishing boat",
     "weathered dock", "nobody", "room_1", "Distant Room",
     "turn the wheel", "Pet the cat"}
KnownLowerCased == [s \in KnownStrings |-> LowerCased(s)]

\* String.prototype.toLowerCase
ToLowerCase(s) ==
    IF s \in KnownStrings THEN KnownLowerCased[s] ELSE LowerCased(s)

\* the character at position i of s (1-based), "" past the end
CharAt(s, i) == IF i >= 1 /\ i <= Len(s) THEN SubSeq(s, i, i) ELSE ""

\* the white space trim, parseFloat and parseInt skip
IsWhiteSpace(c) == c = " " \/ c = "\n" \/ c = "\t"

RECURSIVE TrimStart(_)
TrimStart(s) ==
    IF Len(s) > 0 /\ IsWhiteSpace(CharAt(s, 1))
    THEN TrimStart(SubSeq(s, 2, Len(s))) ELSE s

RECURSIVE TrimEnd(_)
TrimEnd(s) ==
    IF Len(s) > 0 /\ IsWhiteSpace(CharAt(s, Len(s)))
    THEN TrimEnd(SubSeq(s, 1, Len(s) - 1)) ELSE s

\* String.prototype.trim
Trim(s) == TrimEnd(TrimStart(s))

\* String.prototype.split(sep) for a separator of one character
RECURSIVE Split(_, _)
Split(s, sep) ==
    IF \E i \in 1..Len(s) : CharAt(s, i) = sep
    THEN LET k == CHOOSE i \in 1..Len(s) :
                    CharAt(s, i) = sep /\ \A j \in 1..(i - 1) : CharAt(s, j) # sep
         IN <<SubSeq(s, 1, k - 1)>> \o Split(SubSeq(s, k + 1, Len(s)), sep)
    ELSE <<s>>

\* NaN where a number is expected
NaN == <<1, 0>>
isNaN(x) == x = NaN

IsDigit(c) == c \in {"0", "1", "2", "3", "4", "5", "6", "7", "8", "9"}
DigitValue(c) ==
    CASE c = "0" -> 0 [] c = "1" -> 1 [] c = "2" -> 2 [] c = "3" -> 3
      [] c = "4" -> 4 [] c = "5" -> 5 [] c = "6" -> 6 [] c = "7" -> 7
      [] c = "8" -> 8 [] c = "9" -> 9

\* the number of decimal digits of s from position i on
RECURSIVE DigitRun(_, _)
DigitRun(s, i) == IF IsDigit(CharAt(s, i)) THEN 1 + DigitRun(s, i + 1) ELSE 0

\* the value of the n decimal digits of s from position i on
RECURSIVE DecimalValue(_, _, _)
DecimalValue(s, i, n) ==
    IF n = 0 THEN 0
    ELSE DecimalValue(s, i, n - 1) * 10 + DigitValue(CharAt(s, i + n - 1))

RECURSIVE Pow10(_)
Pow10(n) == IF n = 0 THEN 1 ELSE 10 * Pow10(n - 1)

\* parseInt(string): leading white space, a sign, then the decimal digits up
\* to the first other character (no hexadecimal prefix among the inputs)
parseInt(string) ==
    LET t == TrimStart(string)
        signed == CharAt(t, 1) = "-" \/ CharAt(t, 1) = "+"
        start == IF signed THEN 2 ELSE 1
        n == DigitRun(t, start)
        magnitude == DecimalValue(t, start, n)
    IN IF n = 0 THEN NaN
       ELSE Integer(IF CharAt(t, 1) = "-" THEN 0 - magnitude ELSE magnitude)

\* parseFloat(string): leading white space, a sign, digits, and a fraction
\* after a point, up to the first other character (no exponent among the
\* inputs)
parseFloat(string) ==
    LET t == TrimStart(string)
        signed == CharAt(t, 1) = "-" \/ CharAt(t, 1) = "+"
        start == IF signed THEN 2 ELSE 1
        n == DigitRun(t, start)
        m == IF CharAt(t, start + n) = "." THEN DigitRun(t, start + n + 1) ELSE 0
        magnitude == DecimalValue(t, start, n) * Pow10(m)
                        + DecimalValue(t, start + n + 1, m)
    IN IF n = 0 /\ m = 0 THEN NaN
       ELSE Num(IF CharAt(t, 1) = "-" THEN 0 - magnitude ELSE magnitude, Pow10(m))

(***************************************************************************)
(* The heap as a value: h.parent and h.kids are the two link fields of     *)
(* every WorldObject.  The operators below are the methods, applied to a   *)
(* heap and returning the heap they leave.                                 *)
(***************************************************************************)
Heap == [parent |-> parent, kids |-> containedObjects]

\* Map.prototype.get on World.objects
Get(objs, g, id) ==
    IF id \in SeqToSet(objs) THEN <<g, id>> ELSE UndefinedCell

getObject(id) == Get(objects, gen, id)

\* WorldObject.removeChild(child), called on the object p
removeChild(h, p, child) ==
    LET index == IndexOf(h.kids[p], child) IN
    IF index > -1
    THEN [parent |-> [h.parent EXCEPT ![child] = NullCell],
          kids   |-> [h.kids EXCEPT ![p] = Splice1(h.kids[p], index)]]
    ELSE h

\* addChild without the detach from the prior parent
addChildNoDetach(h, p, child) ==
    [parent |-> [h.parent EXCEPT ![child] = p],
     kids   |-> [h.kids EXCEPT ![p] = Append(h.kids[p], child)]]

\* WorldObject.addChild(child), called on the object p
addChild(h, p, child) ==
    LET h1 == IF Truthy(h.parent[child])
              THEN removeChild(h, h.parent[child], child)
              ELSE h
    IN [parent |-> [h1.parent EXCEPT ![child] = p],
        kids   |-> [h1.kids EXCEPT ![p] = Append(h1.kids[p], child)]]

(***************************************************************************)
(* Entity store and containment tree: the operations of World              *)
(***************************************************************************)
InStore(id) == id \in SeqToSet(objects)
StoreCells == {<<gen, objects[i]>> : i \in 1..Len(objects)}

\* The objects a caller can still reach: from the store and from rootObject,
\* following parent and containedObjects links (everything else is garbage).
Links(par, kids, c) ==
    (IF Truthy(par[c]) THEN {par[c]} ELSE {}) \cup SeqToSet(kids[c])

RECURSIVE Reach(_, _, _)
Reach(par, kids, S) ==
    LET T == S \cup UNION {Links(par, kids, c) : c \in S} IN
    IF T = S THEN S ELSE Reach(par, kids, T)

\* World.createObject(id, name, description, parentId)
createObject(id, nm, desc, parentId) ==
    IF InStore(id)
    THEN /\ lastResult' = "null"
         /\ UNCHANGED <<worldVars, saved>>
    ELSE LET par == IF TruthyId(parentId) THEN getObject(parentId) ELSE rootObject
             obj == <<gen, id>>
             \* new WorldObject(id, name, description, parent): the default
             \* parameter value null replaces an undefined argument
             ctorParent == IF par = UndefinedCell THEN NullCell ELSE par
             h0 == [parent |-> (obj :> ctorParent) @@ parent,
                    kids   |-> (obj :> <<>>) @@ containedObjects]
             h1 == IF Truthy(par) THEN addChild(h0, par, obj) ELSE h0
         IN /\ objects' = Append(objects, id)
            /\ cells' = cells \cup {obj}
            /\ parent' = h1.parent
            /\ containedObjects' = h1.kids
            /\ name' = (obj :> nm) @@ name
            /\ description' = (obj :> desc) @@ description
            /\ relationships' = (obj :> <<>>) @@ relationships
            /\ edgeTicks' = (obj :> <<>>) @@ edgeTicks
            /\ rootObject' = IF ~Truthy(par) /\ ~Truthy(rootObject)
                             THEN obj ELSE rootObject
            /\ lastResult' = "object"
            /\ UNCHANGED <<gen, playerObjectId, simulationTime, saved>>

\* moveObject with the detach run before the destination is looked at
moveObjectDetachFirst(objectId, newParentId) ==
    LET obj == getObject(objectId)
        newParent == IF TruthyId(newParentId) THEN getObject(newParentId)
                     ELSE rootObject
        h1 == IF Truthy(obj) /\ Truthy(parent[obj])
              THEN removeChild(Heap, parent[obj], obj)
              ELSE Heap
    IN IF Truthy(obj) /\ Truthy(newParent)
       THEN LET h2 == addChild(h1, newParent, obj)
            IN /\ parent' = h2.parent
               /\ containedObjects' = h2.kids
               /\ lastResult' = "true"
               /\ UNCHANGED <<objects, gen, cells, name, description, relationships,
                              edgeTicks, rootObject, playerObjectId,
                              simulationTime, saved>>
       ELSE /\ parent' = h1.parent
            /\ containedObjects' = h1.kids
            /\ lastResult' = "false"
            /\ UNCHANGED <<objects, gen, cells, name, description, relationships,
                           edgeTicks, rootObject, playerObjectId,
                           simulationTime, saved>>

\* World.moveObject(objectId, newParentId)
moveObject(objectId, newParentId) ==
    LET obj == getObject(objectId)
        newParent == IF TruthyId(newParentId) THEN getObject(newParentId)
                     ELSE rootObject
    IN IF Truthy(obj) /\ Truthy(newParent)
       THEN LET h1 == IF Truthy(parent[obj])
                      THEN removeChild(Heap, parent[obj], obj)
                      ELSE Heap
                h2 == addChild(h1, newParent, obj)
            IN /\ parent' = h2.parent
               /\ containedObjects' = h2.kids
               /\ lastResult' = "true"
               /\ UNCHANGED <<objects, gen, cells, name, description, relationships,
                              edgeTicks, rootObject, playerObjectId,
                              simulationTime, saved>>
       ELSE /\ lastResult' = "false"
            /\ UNCHANGED <<worldVars, saved>>

\* p.addChild(child), called by a client that holds both objects
\* (createObject and getObject hand them out)
AddChildCall(p, child) ==
    /\ p \in StoreCells /\ child \in StoreCells
    /\ LET h == addChild(Heap, p, child) IN
         /\ parent' = h.parent
         /\ containedObjects' = h.kids
    /\ lastResult' = "undefined"
    /\ UNCHANGED <<objects, gen, cells, name, description, relationships, edgeTicks,
                   rootObject, playerObjectId, simulationTime, saved>>

\* p.removeChild(child), called by a client that holds both objects
RemoveChildCall(p, child) ==
    /\ p \in StoreCells /\ child \in StoreCells
    /\ LET h == removeChild(Heap, p, child) IN
         /\ parent' = h.parent
         /\ containedObjects' = h.kids
    /\ lastResult' = "undefined"
    /\ UNCHANGED <<objects, gen, cells, name, description, relationships, edgeTicks,
                   rootObject, playerObjectId, simulationTime, saved>>

(***************************************************************************)
(* Relationship ledger                                                     *)
(***************************************************************************)
SameEdge(rel, relationship, targetId) ==
    rel.relationship = relationship /\ rel.to = targetId

\* the positions of rels that the filter of addRelationship keeps, in order
RECURSIVE KeptPositions(_, _, _, _)
KeptPositions(rels, relationship, targetId, i) ==
    IF i = 0 THEN <<>>
    ELSE LET before == KeptPositions(rels, relationship, targetId, i - 1) IN
         IF SameEdge(rels[i], relationship, targetId) THEN before
         ELSE Append(before, i)

\* addRelationship without the filter: the edge is pushed, nothing is removed
addRelationshipPushOnly(rels, relationship, targetId, progress, progressTime) ==
    Append(rels,
           [relationship |-> relationship,
            to |-> targetId,
            progress |-> progress,
            progressTime |-> progressTime,
            initialProgress |-> progress,
            initialProgressTime |-> progressTime])

\* WorldObject.addRelationship(relationship, targetId, progress, progressTime)
\* applied to the list rels
addRelationship(rels, relationship, targetId, progress, progressTime) ==
    LET keep == KeptPositions(rels, relationship, targetId, Len(rels)) IN
    Append([i \in 1..Len(keep) |-> rels[keep[i]]],
           [relationship |-> relationship,
            to |-> targetId,
            progress |-> progress,
            progressTime |-> progressTime,
            initialProgress |-> progress,
            initialProgressTime |-> progressTime])

\* the history of the list after addRelationship: the pushed edge has seen
\* no tick
addRelationshipTicks(rels, ticks, relationship, targetId) ==
    LET keep == KeptPositions(rels, relationship, targetId, Len(rels)) IN
    Append([i \in 1..Len(keep) |-> ticks[keep[i]]], 0)

\* obj.addRelationship(...) called by a client on the store object fromId
\* (terminal command 'relate', window.addRelationship, initializeWorld)
AddRelationshipCall(fromId, relationship, targetId, progress, progressTime) ==
    LET obj == getObject(fromId) IN
    /\ Truthy(obj)
    /\ relationships' = [relationships EXCEPT ![obj] =
            addRelationship(@, relationship, targetId, progress, progressTime)]
    /\ edgeTicks' = [edgeTicks EXCEPT ![obj] =
            addRelationshipTicks(relationships[obj], @, relationship, targetId)]
    /\ lastResult' = "undefined"
    /\ UNCHANGED <<objects, gen, cells, parent, containedObjects, name, description,
                   rootObject, playerObjectId, simulationTime, saved>>

\* terminal command 'relate': args[0] args[1] args[2] and, if given, args[3]
relate(fromId, relationship, targetId, progressArg) ==
    IF Truthy(getObject(fromId))
    THEN AddRelationshipCall(fromId, relationship, targetId,
                             IF Falsy(progressArg) THEN NullNum
                             ELSE parseFloat(progressArg),
                             NullNum)
    ELSE /\ lastResult' = "not found"
         /\ UNCHANGED <<worldVars, saved>>

\* progressEdge without the test for steps remaining
progressEdgeUnguarded(rel) ==
    IF /\ rel.progressTime # NullNum
       /\ Less(rel.progress, Integer(1))
    THEN LET progressTime == Minus(rel.progressTime, Integer(1)) IN
         IF /\ rel.initialProgress # NullNum
            /\ rel.initialProgressTime # NullNum
            /\ Less(Integer(0), rel.initialProgressTime)
         THEN LET timeElapsed == Minus(rel.initialProgressTime, progressTime)
                  progressGain ==
                      Times(Minus(Integer(1), rel.initialProgress),
                            Over(timeElapsed, rel.initialProgressTime))
              IN [rel EXCEPT !.progressTime = progressTime,
                             !.progress = MathMin(Integer(1),
                                             Plus(rel.initialProgress, progressGain))]
         ELSE [rel EXCEPT !.progressTime = progressTime]
    ELSE rel

\* progressEdge with the gain taken from the progress of the tick before
progressEdgeCompounding(rel) ==
    IF /\ rel.progressTime # NullNum
       /\ Less(Integer(0), rel.progressTime)
       /\ Less(rel.progress, Integer(1))
    THEN LET progressTime == Minus(rel.progressTime, Integer(1)) IN
         IF /\ rel.initialProgress # NullNum
            /\ rel.initialProgressTime # NullNum
            /\ Less(Integer(0), rel.initialProgressTime)
         THEN LET progressGain ==
                      Times(Minus(Integer(1), rel.progress),
                            Over(Integer(1), rel.initialProgressTime))
              IN [rel EXCEPT !.progressTime = progressTime,
                             !.progress = MathMin(Integer(1),
                                             Plus(rel.progress, progressGain))]
         ELSE [rel EXCEPT !.progressTime = progressTime]
    ELSE rel

\* progressEdge with the elapsed time taken before the decrement
progressEdgeStale(rel) ==
    IF /\ rel.progressTime # NullNum
       /\ Less(Integer(0), rel.progressTime)
       /\ Less(rel.progress, Integer(1))
    THEN LET progressTime == Minus(rel.progressTime, Integer(1)) IN
         IF /\ rel.initialProgress # NullNum
            /\ rel.initialProgressTime # NullNum
            /\ Less(Integer(0), rel.initialProgressTime)
         THEN LET timeElapsed == Minus(rel.initialProgressTime, rel.progressTime)
                  progressGain ==
                      Times(Minus(Integer(1), rel.initialProgress),
                            Over(timeElapsed, rel.initialProgressTime))
              IN [rel EXCEPT !.progressTime = progressTime,
                             !.progress = MathMin(Integer(1),
                                             Plus(rel.initialProgress, progressGain))]
         ELSE [rel EXCEPT !.progressTime = progressTime]
    ELSE rel

\* body of the inner loop of progressTimeBasedRelationships, for one edge
progressEdge(rel) ==
    IF /\ rel.progressTime # NullNum
       /\ Less(Integer(0), rel.progressTime)
       /\ Less(rel.progress, Integer(1))
    THEN LET progressTime == Minus(rel.progressTime, Integer(1)) IN
         IF /\ rel.initialProgress # NullNum
            /\ rel.initialProgressTime # NullNum
            /\ Less(Integer(0), rel.initialProgressTime)
         THEN LET timeElapsed == Minus(rel.initialProgressTime, progressTime)
                  progressGain ==
                      Times(Minus(Integer(1), rel.initialProgress),
                            Over(timeElapsed, rel.initialProgressTime))
              IN [rel EXCEPT !.progressTime = progressTime,
                             !.progress = MathMin(Integer(1),
                                             Plus(rel.initialProgress, progressGain))]
         ELSE [rel EXCEPT !.progressTime = progressTime]
    ELSE rel

\* progression over the objects the player's container leads to only
progressBranchRelationships(rels) ==
    [c \in DOMAIN rels |->
        IF /\ c \in StoreCells
           /\ Truthy(getObject(playerObjectId))
           /\ Truthy(parent[getObject(playerObjectId)])
           /\ c \in Reach(parent, containedObjects,
                          {parent[getObject(playerObjectId)]})
        THEN [i \in 1..Len(rels[c]) |-> progressEdge(rels[c][i])]
        ELSE rels[c]]

\* World.progressTimeBasedRelationships(): every edge of every store object
progressTimeBasedRelationships(rels) ==
    [c \in DOMAIN rels |->
        IF c \in StoreCells
        THEN [i \in 1..Len(rels[c]) |-> progressEdge(rels[c][i])]
        ELSE rels[c]]

\* the history after one run of progressTimeBasedRelationships
TickedOnce(ticks) ==
    [c \in DOMAIN ticks |->
        IF c \in StoreCells
        THEN [i \in 1..Len(ticks[c]) |-> ticks[c][i] + 1]
        ELSE ticks[c]]

\* for (const [id, obj] of this.objects) with a return on the first hit: hits
\* are the positions that satisfy the test; null if there is none
FirstInStore(hits) ==
    IF hits = {} THEN NullCell
    ELSE <<gen, objects[CHOOSE i \in hits : \A j \in hits : i <= j]>>

\* World.getObjectByName(name)
getObjectByName(nm) ==
    LET lowerName == ToLowerCase(nm)
        named == FirstInStore({i \in 1..Len(objects) :
                    ToLowerCase(name[<<gen, objects[i]>>]) = lowerName})
    IN IF InStore(nm) THEN getObject(nm)
       ELSE IF InStore(lowerName) THEN getObject(lowerName)
       ELSE IF Truthy(named) THEN named
       ELSE FirstInStore({i \in 1..Len(objects) :
                ToLowerCase(objects[i]) = lowerName})

\* ParsedLine with the values of a proposal brought into range in place of
\* the test: progress clamped to [0, 1], steps raised to 1
ParsedLineClamped(line) ==
    LET trimmed == Trim(line)
        parts == Split(trimmed, "|")
    IN IF trimmed = "NONE" \/ trimmed = "" \/ Len(parts) # 5 THEN <<>>
       ELSE LET progress == parseFloat(parts[4])
                progressTime == parseInt(parts[5])
            IN <<[from |-> ToLowerCase(Trim(parts[1])),
                  relationship |-> Trim(parts[2]),
                  to |-> ToLowerCase(Trim(parts[3])),
                  progress |-> IF isNaN(progress) \/ Less(progress, Integer(0))
                               THEN Integer(0)
                               ELSE MathMin(Integer(1), progress),
                  progressTime |-> IF isNaN(progressTime)
                                      \/ Less(progressTime, Integer(1))
                                   THEN Integer(1) ELSE progressTime]>>

\* the change a line of the response yields, in a sequence: none for a line
\* that is skipped or dropped
ParsedLine(line) ==
    LET trimmed == Trim(line)
        parts == Split(trimmed, "|")
    IN IF trimmed = "NONE" \/ trimmed = "" \/ Len(parts) # 5 THEN <<>>
       ELSE LET progress == parseFloat(parts[4])
                progressTime == parseInt(parts[5])
            IN IF /\ ~isNaN(progress)
                  /\ LessEq(Integer(0), progress)
                  /\ LessEq(progress, Integer(1))
                  /\ ~isNaN(progressTime)
                  /\ LessEq(Integer(1), progressTime)
               THEN <<[from |-> ToLowerCase(Trim(parts[1])),
                       relationship |-> Trim(parts[2]),
                       to |-> ToLowerCase(Trim(parts[3])),
                       progress |-> progress,
                       progressTime |-> progressTime]>>
               ELSE <<>>

\* the changes of the lines 1..i, in order
RECURSIVE ParsedLines(_, _)
ParsedLines(lines, i) ==
    IF i = 0 THEN <<>>
    ELSE ParsedLines(lines, i - 1) \o ParsedLine(lines[i])

\* LLMManager.parseRelationshipChanges(response)
parseRelationshipChanges(text) ==
    LET lines == Split(Trim(text), "\n") IN ParsedLines(lines, Len(lines))

\* applyRelationshipChange followed by a tick: the inference run ahead of
\* the progression of the turn
applyRelationshipChangeTicked(rels, ticks, change) ==
    LET sourceObj == getObjectByName(change.from)
        targetObj == getObjectByName(change.to)
    IN IF ~Truthy(sourceObj) \/ ~Truthy(targetObj)
       THEN [rels |-> rels, ticks |-> ticks]
       ELSE [rels |-> progressTimeBasedRelationships(
                         [rels EXCEPT ![sourceObj] =
                            addRelationship(@, change.relationship,
                                            CellId(targetObj), change.progress,
                                            change.progressTime)]),
             ticks |-> [ticks EXCEPT ![sourceObj] =
                         addRelationshipTicks(rels[sourceObj], @,
                                              change.relationship, CellId(targetObj))]]

\* World.applyRelationshipChange(change): the relationships it leaves
applyRelationshipChange(rels, ticks, change) ==
    LET sourceObj == getObjectByName(change.from)
        targetObj == getObjectByName(change.to)
    IN IF ~Truthy(sourceObj) \/ ~Truthy(targetObj)
       THEN [rels |-> rels, ticks |-> ticks]
       ELSE [rels |-> [rels EXCEPT ![sourceObj] =
                         addRelationship(@, change.relationship, CellId(targetObj),
                                         change.progress, change.progressTime)],
             ticks |-> [ticks EXCEPT ![sourceObj] =
                         addRelationshipTicks(rels[sourceObj], @,
                                              change.relationship, CellId(targetObj))]]

(***************************************************************************)
(* Snapshots: World.export, JSON.stringify / JSON.parse, World.import      *)
(***************************************************************************)
\* World.export(): one entry per store key, in the Map's order
export ==
    [objects |-> [i \in 1..Len(objects) |->
                    LET obj == <<gen, objects[i]>> IN
                    [id |-> objects[i],
                     name |-> name[obj],
                     description |-> description[obj],
                     parentId |-> IF Truthy(parent[obj])
                                  THEN CellId(parent[obj]) ELSE NullId,
                     relationships |-> relationships[obj]]],
     simulationTime |-> simulationTime,
     rootObjectId |-> IF Truthy(rootObject) THEN CellId(rootObject) ELSE NullId]

\* keys of the Map after set() of every entry in order: a repeated key keeps
\* its first position
RECURSIVE KeysOf(_, _)
KeysOf(list, i) ==
    IF i = 0 THEN <<>>
    ELSE LET before == KeysOf(list, i - 1) IN
         IF list[i].id \in SeqToSet(before) THEN before
         ELSE Append(before, list[i].id)

\* the relationships of the object stored under id: the last entry wins
LastEntry(list, id) ==
    list[CHOOSE i \in 1..Len(list) :
            list[i].id = id /\ \A j \in (i+1)..Len(list) : list[j].id # id]

\* import wiring in a single pass with the creation: an entry is linked only
\* to a parent whose entry came no later than its own
RECURSIVE WireForward(_, _, _, _, _)
WireForward(h, list, keys, g, i) ==
    IF i = 0 THEN h
    ELSE LET obj == Get(keys, g, list[i].id)
             par == Get(keys, g, list[i].parentId)
         IN CHOOSE h2 \in
                {IF /\ TruthyId(list[i].parentId) /\ Truthy(obj) /\ Truthy(par)
                    /\ \E j \in 1..i : list[j].id = list[i].parentId
                 THEN addChild(h1, par, obj)
                 ELSE h1 : h1 \in {WireForward(h, list, keys, g, i - 1)}} : TRUE

\* second loop of import: wire the entries 1..i in order (h1 is the heap the
\* entries before the i-th leave)
RECURSIVE Wire(_, _, _, _, _)
Wire(h, list, keys, g, i) ==
    IF i = 0 THEN h
    ELSE LET obj == Get(keys, g, list[i].id)
             par == Get(keys, g, list[i].parentId)
         IN CHOOSE h2 \in
                {IF TruthyId(list[i].parentId) /\ Truthy(obj) /\ Truthy(par)
                 THEN addChild(h1, par, obj)
                 ELSE h1 : h1 \in {Wire(h, list, keys, g, i - 1)}} : TRUE

MaxCells == 3

\* World.import(data).  The new objects link only to each other, so an object
\* of the cleared store stays on the heap only while the kept rootObject leads
\* to it; the new store takes the least epoch no surviving object has.
import(data) ==
    \E keys \in {KeysOf(data.objects, Len(data.objects))} :
    LET keepRoot == ~TruthyId(data.rootObjectId)
        kept == IF keepRoot /\ Truthy(rootObject)
                THEN Reach(parent, containedObjects, {rootObject}) ELSE {}
        epochs == {c[1] : c \in kept}
        g == CHOOSE k \in 0..Cardinality(kept) :
                k \notin epochs /\ \A j \in 0..(k-1) : j \in epochs
        fresh == {<<g, keys[i]>> : i \in 1..Len(keys)}
        live == kept \cup fresh
        h0 == [parent |-> [c \in live |-> IF c \in fresh THEN NullCell ELSE parent[c]],
               kids   |-> [c \in live |-> IF c \in fresh THEN <<>>
                                          ELSE containedObjects[c]]]
    IN \E h1 \in {Wire(h0, data.objects, keys, g, Len(data.objects))} :
       /\ kept = {} \/ Cardinality(live) <= MaxCells
       /\ objects' = keys
       /\ gen' = g
       /\ cells' = live
       /\ parent' = h1.parent
       /\ containedObjects' = h1.kids
       /\ name' = [c \in live |-> IF c \in fresh
                                    THEN LastEntry(data.objects, CellId(c)).name
                                    ELSE name[c]]
       /\ description' = [c \in live |-> IF c \in fresh
                                    THEN LastEntry(data.objects, CellId(c)).description
                                    ELSE description[c]]
       /\ relationships' =
            [c \in live |-> IF c \in fresh
                            THEN LastEntry(data.objects, CellId(c)).relationships
                            ELSE relationships[c]]
       /\ edgeTicks' =
            [c \in live |->
               IF c \in fresh
               THEN [i \in 1..Len(LastEntry(data.objects, CellId(c)).relationships)
                       |-> 0]
               ELSE edgeTicks[c]]
       /\ rootObject' = IF keepRoot THEN rootObject
                        ELSE Get(keys, g, data.rootObjectId)
       /\ simulationTime' = data.simulationTime
       /\ UNCHANGED playerObjectId

\* JSON.parse(JSON.stringify(data)) of a snapshot: NaN is written as null,
\* every other number, string and null comes back as it was
JSONValue(data) ==
    [data EXCEPT !.objects =
        [i \in 1..Len(data.objects) |->
            [data.objects[i] EXCEPT !.relationships =
                [k \in 1..Len(data.objects[i].relationships) |->
                    LET rel == data.objects[i].relationships[k] IN
                    [rel EXCEPT
                       !.progress = IF isNaN(@) THEN NullNum ELSE @,
                       !.progressTime = IF isNaN(@) THEN NullNum ELSE @,
                       !.initialProgress = IF isNaN(@) THEN NullNum ELSE @,
                       !.initialProgressTime = IF isNaN(@) THEN NullNum ELSE @]]]]]

\* terminal command 'save' / window.saveWorld
Save ==
    /\ saved' = <<JSONValue(export)>>
    /\ lastResult' = "saved"
    /\ UNCHANGED <<worldVars, turnVars>>

\* terminal command 'load' / window.loadWorld
Load ==
    /\ saved # <<>>
    /\ import(saved[1])
    /\ lastResult' = "loaded"
    /\ UNCHANGED <<saved, turnVars>>

(***************************************************************************)
(* The starting scenario of initializeWorld()                              *)
(***************************************************************************)
DemoIds == <<"ocean", "island_1", "dock_1", "boat_1", "sam", "wheel",
             "ship_cat", "cat_tail", "lighthouse_1">>

DemoName(id) ==
    CASE id = "ocean" -> "The Endless Ocean"
      [] id = "island_1" -> "Fog-Shrouded Island"
      [] id = "dock_1" -> "Weathered Dock"
      [] id = "boat_1" -> "Small Fishing Boat"
      [] id = "sam" -> "Sam"
      [] id = "wheel" -> "Steering Wheel"
      [] id = "ship_cat" -> "Ship Cat"
      [] id = "cat_tail" -> "Cat Tail"
      [] id = "lighthouse_1" -> "Abandoned Lighthouse"
      [] OTHER -> id

DemoDescription(id) ==
    CASE id = "ocean" -> "Dark waters stretch beyond the horizon, dotted with mysterious islands."
      [] id = "island_1" -> "A small landmass wrapped in perpetual mist. Ancient structures peek through the gray veil."
      [] id = "dock_1" -> "Rotting wooden planks extend into the black water. Something stirs beneath the surface."
      [] id = "boat_1" -> "A humble vessel with nets and basic supplies. Its paint is faded, its wood warped by salt."
      [] id = "sam" -> "A weathered sailor with knowing eyes. Your hands are calloused from years at sea."
      [] id = "wheel" -> "A worn wooden wheel, smooth from countless hands. It responds to the slightest touch."
      [] id = "ship_cat" -> "A gray tabby with sea-green eyes. It moves with perfect balance despite the rolling waves."
      [] id = "cat_tail" -> "A gray striped tail that twitches and flicks with feline emotion."
      [] id = "lighthouse_1" -> "A tall stone tower, its light long extinguished. Strange symbols are carved into its base."
      [] OTHER -> "A place nobody has looked at yet."

DemoParentId(id) ==
    CASE id = "island_1" -> "ocean"
      [] id = "dock_1" -> "island_1"
      [] id = "boat_1" -> "dock_1"
      [] id = "sam" -> "boat_1"
      [] id = "wheel" -> "boat_1"
      [] id = "ship_cat" -> "boat_1"
      [] id = "cat_tail" -> "ship_cat"
      [] id = "lighthouse_1" -> "island_1"
      [] OTHER -> NullId

DemoEdge(relationship, targetId, progress) ==
    [relationship |-> relationship, to |-> targetId, progress |-> progress,
     progressTime |-> NullNum, initialProgress |-> progress,
     initialProgressTime |-> NullNum]

DemoRelationships(id) ==
    CASE id = "boat_1" -> <<DemoEdge("docked_at", "dock_1", Integer(1))>>
      [] id = "lighthouse_1" -> <<DemoEdge("watches_over", "dock_1", NullNum),
                                  DemoEdge("beacon_for", "boat_1", Num(3, 10))>>
      [] OTHER -> <<>>

\* no processPlayerAction call in flight
NoTurn ==
    /\ pc = "idle"
    /\ playerAction = ""
    /\ branch = <<>>
    /\ depthGroups = <<>>
    /\ promises = <<>>
    /\ results = <<>>
    /\ requests = <<>>
    /\ response = ""
    /\ suspended = <<>>

\* the world initializeWorld() returns
InitDemo ==
    /\ objects = DemoIds
    /\ gen = 0
    /\ cells = {<<0, DemoIds[i]>> : i \in 1..Len(DemoIds)}
    /\ parent = [c \in {<<0, DemoIds[i]>> : i \in 1..Len(DemoIds)} |->
                   IF DemoParentId(c[2]) = NullId THEN NullCell
                   ELSE <<0, DemoParentId(c[2])>>]
    /\ containedObjects =
          [c \in {<<0, DemoIds[i]>> : i \in 1..Len(DemoIds)} |->
              LET at == SelectSeq(DemoIds, LAMBDA k : DemoParentId(k) = c[2])
              IN [i \in 1..Len(at) |-> <<0, at[i]>>]]
    /\ name = [c \in {<<0, DemoIds[i]>> : i \in 1..Len(DemoIds)} |->
                 DemoName(c[2])]
    /\ description = [c \in {<<0, DemoIds[i]>> : i \in 1..Len(DemoIds)} |->
                        DemoDescription(c[2])]
    /\ relationships = [c \in {<<0, DemoIds[i]>> : i \in 1..Len(DemoIds)} |->
                          DemoRelationships(c[2])]
    /\ edgeTicks = [c \in {<<0, DemoIds[i]>> : i \in 1..Len(DemoIds)} |->
                      [i \in 1..Len(DemoRelationships(c[2])) |-> 0]]
    /\ rootObject = <<0, "ocean">>
    /\ playerObjectId = "sam"
    /\ simulationTime = 0
    /\ saved = <<>>
    /\ lastResult = "none"
    /\ lastCall = "initializeWorld"
    /\ llm = "unavailable"
    /\ NoTurn

(***************************************************************************)
(* Specification of the store and the tree: a world built from new World() *)
(***************************************************************************)

TreeIds == {"boat_1", "sam"}
GhostId == "ghost"      \* an id no createObject call ever uses
IdInputs == TreeIds \cup {NullId, GhostId}

\* new World()
InitEmpty ==
    /\ objects = <<>>
    /\ gen = 0
    /\ cells = {}
    /\ parent = <<>>
    /\ containedObjects = <<>>
    /\ name = <<>>
    /\ description = <<>>
    /\ relationships = <<>>
    /\ edgeTicks = <<>>
    /\ rootObject = NullCell
    /\ playerObjectId = UndefinedId
    /\ simulationTime = 0
    /\ saved = <<>>
    /\ lastResult = "none"
    /\ lastCall = "new World"
    /\ llm = "unavailable"
    /\ NoTurn

CreateObject == \E id \in TreeIds, parentId \in IdInputs :
                    /\ InStore(id) \/ Cardinality(cells) < MaxCells
                    /\ createObject(id, DemoName(id), DemoDescription(id), parentId)
                    /\ UNCHANGED turnVars
MoveObject == \E objectId \in IdInputs, newParentId \in IdInputs :
                 moveObject(objectId, newParentId) /\ UNCHANGED turnVars
AddChild == \E p \in StoreCells, child \in StoreCells :
               AddChildCall(p, child) /\ UNCHANGED turnVars
RemoveChild == \E p \in StoreCells, child \in StoreCells :
                  RemoveChildCall(p, child) /\ UNCHANGED turnVars
LoadWorld == Load

NextTree ==
    \/ CreateObject
    \/ MoveObject
    \/ AddChild
    \/ RemoveChild
    \/ Save
    \/ LoadWorld

SpecTree == InitEmpty /\ [][NextTree]_vars

\* createObject and moveObject alone, on three ids
ForestIds == {"dock_1", "boat_1", "sam"}
ForestInputs == ForestIds \cup {NullId, GhostId}

CreateInForest == \E id \in ForestIds, parentId \in ForestInputs :
                     createObject(id, DemoName(id), DemoDescription(id), parentId)
                     /\ UNCHANGED turnVars
MoveInForest == \E objectId \in ForestInputs, newParentId \in ForestInputs :
                   moveObject(objectId, newParentId) /\ UNCHANGED turnVars

NextForest ==
    \/ CreateInForest
    \/ MoveInForest

SpecForest == InitEmpty /\ [][NextForest]_vars

(***************************************************************************)
(* Specification of the ledger: the starting scenario, edges upserted on   *)
(* the boat (by a client and by applied inferred changes) and ticks        *)
(***************************************************************************)
MaxSteps == 2     \* largest total-steps input
MaxTicks == 2     \* ticks an edge is followed for

LedgerSources == {"boat_1"}
LedgerTypes == {"docked_at", "reached"}
LedgerTargets == {"dock_1"}
ProgressInputs == {NullNum, Integer(0), Num(1, 2), Integer(1)}
StepInputs == {NullNum} \cup {Integer(n) : n \in 0..MaxSteps}

\* what parseRelationshipChanges lets through: progress in [0, 1], steps >= 1
ChangeInputs ==
    [from : {"small fishing boat", "nobody"},
     relationship : LedgerTypes,
     to : {"weathered dock"},
     progress : {Integer(0), Integer(1)},
     progressTime : {Integer(n) : n \in 1..MaxSteps}]

AddRelationship ==
    \E fromId \in LedgerSources, relationship \in LedgerTypes,
       targetId \in LedgerTargets, progress \in ProgressInputs,
       progressTime \in StepInputs :
        /\ AddRelationshipCall(fromId, relationship, targetId, progress, progressTime)
        /\ UNCHANGED turnVars

\* world.progressTimeBasedRelationships() on its own
ProgressRelationships ==
    /\ \A c \in StoreCells : \A i \in 1..Len(edgeTicks[c]) :
            edgeTicks[c][i] < MaxTicks
    /\ relationships' = progressTimeBasedRelationships(relationships)
    /\ edgeTicks' = TickedOnce(edgeTicks)
    /\ lastResult' = "undefined"
    /\ UNCHANGED <<objects, gen, cells, parent, containedObjects, name, description,
                   rootObject, playerObjectId, simulationTime, saved>>
    /\ UNCHANGED turnVars

\* world.applyRelationshipChange(change) on its own
ApplyRelationshipChange ==
    \E change \in ChangeInputs :
        LET after == applyRelationshipChange(relationships, edgeTicks, change) IN
        /\ relationships' = after.rels
        /\ edgeTicks' = after.ticks
        /\ lastResult' = "undefined"
        /\ UNCHANGED <<objects, gen, cells, parent, containedObjects, name, description,
                       rootObject, playerObjectId, simulationTime, saved>>
        /\ UNCHANGED turnVars

NextLedger ==
    \/ AddRelationship
    \/ ProgressRelationships
    \/ ApplyRelationshipChange

SpecLedger == InitDemo /\ [][NextLedger]_vars

(***************************************************************************)
(* The turn: World.processPlayerAction and what it calls                   *)
(***************************************************************************)
\* Map.get on the entries of results
MapGet(entries, objId) ==
    IF \E i \in 1..Len(entries) : entries[i].objId = objId
    THEN entries[CHOOSE i \in 1..Len(entries) : entries[i].objId = objId].action
    ELSE UndefinedId

\* Map.has
MapHas(entries, objId) == \E i \in 1..Len(entries) : entries[i].objId = objId

\* Map.set: a key already present keeps its position
MapSet(entries, objId, action) ==
    IF MapHas(entries, objId)
    THEN [i \in 1..Len(entries) |->
            IF entries[i].objId = objId
            THEN [objId |-> objId, action |-> action] ELSE entries[i]]
    ELSE Append(entries, [objId |-> objId, action |-> action])

\* a Set after the given add calls, in insertion order: Set.add keeps the
\* first occurrence
SetOf(adds) ==
    LET first == {i \in 1..Len(adds) : \A j \in 1..(i - 1) : adds[j] # adds[i]}
    IN [k \in 1..Cardinality(first) |->
           adds[CHOOSE i \in first : Cardinality({j \in first : j <= i}) = k]]

\* addDescendantsToSet without the recursion: obj and its children
addDescendantsToSetShallow(obj) == <<obj>> \o containedObjects[obj]

\* World.addDescendantsToSet(obj, set), over a containment tree: the objects
\* it passes to set.add, in order
RECURSIVE addDescendantsToSet(_), AddChildrenFrom(_, _)
addDescendantsToSet(obj) ==
    <<obj>> \o AddChildrenFrom(containedObjects[obj], 1)

\* the forEach of addDescendantsToSet, from the i-th child on
AddChildrenFrom(children, i) ==
    IF i > Len(children) THEN <<>>
    ELSE addDescendantsToSet(children[i]) \o AddChildrenFrom(children, i + 1)

RECURSIVE BranchLoop(_)
\* BranchLoop that stops below the topmost ancestor
BranchLoopBelowTop(current) ==
    IF ~Truthy(current) \/ ~Truthy(parent[current]) THEN <<>>
    ELSE <<current>> \o addDescendantsToSet(current) \o BranchLoop(parent[current])

\* the while loop of getSimulationBranch from current on: the objects it
\* passes to branch.add, in order
BranchLoop(current) ==
    IF ~Truthy(current) THEN <<>>
    ELSE <<current>> \o addDescendantsToSet(current) \o BranchLoop(parent[current])

\* World.getSimulationBranch(playerObject): Array.from(branch)
getSimulationBranch(playerObject) == SetOf(BranchLoop(parent[playerObject]))

Max(S) == CHOOSE x \in S : \A y \in S : y <= x

\* World.calculateObjectDepth(obj), over a containment tree
RECURSIVE calculateObjectDepth(_)
calculateObjectDepth(obj) ==
    IF Len(containedObjects[obj]) = 0 THEN 0
    ELSE Max({-1} \cup {calculateObjectDepth(containedObjects[obj][i]) :
                           i \in 1..Len(containedObjects[obj])}) + 1

\* World.groupObjectsByDepth(objects): depth -> the objects of that depth, in
\* the order of the argument
groupObjectsByDepth(objs) ==
    LET depthOf == [c \in SeqToSet(objs) |-> calculateObjectDepth(c)] IN
    [depth \in {depthOf[c] : c \in SeqToSet(objs)} |->
        SelectSeq(objs, LAMBDA c : depthOf[c] = depth)]

\* Array.prototype.sort((a, b) => b - a) on distinct numbers
RECURSIVE SortedDescending(_)
SortedDescending(S) ==
    IF S = {} THEN <<>>
    ELSE <<Max(S)>> \o SortedDescending(S \ {Max(S)})

\* simulateBottomUp: the groups in the order the for loop visits them
GroupsInOrder(objs) ==
    LET depthMap == groupObjectsByDepth(objs)
        depths == SortedDescending(DOMAIN depthMap)
    IN [i \in 1..Len(depths) |-> depthMap[depths[i]]]

\* simulateObject: the children's actions collected from results
ChildActions(obj, entries) ==
    LET all == [i \in 1..Len(containedObjects[obj]) |->
                  LET childResult == MapGet(entries, CellId(containedObjects[obj][i]))
                  IN IF Falsy(childResult) THEN "no action" ELSE childResult]
    IN SelectSeq(all, LAMBDA action : action # "no action")

\* Array.prototype.some(a => a.includes(word))
SomeIncludes(actions, word) ==
    \E i \in 1..Len(actions) : Includes(actions[i], word)

\* World.getBasicReaction(obj, playerAction, childActions)
getBasicReaction(objId, action, childActions) ==
    CASE objId = "cat_tail" ->
           IF Includes(action, "turn") \/ Includes(action, "wheel")
           THEN "twitches nervously"
           ELSE IF Includes(action, "pet") \/ Includes(action, "cat")
           THEN "flicks with pleasure"
           ELSE "sways gently"
      [] objId = "ship_cat" ->
           IF SomeIncludes(childActions, "twitches") THEN "meows softly"
           ELSE IF Includes(action, "pet") \/ Includes(action, "cat")
           THEN "purrs and rubs against you"
           ELSE "watches alertly"
      [] objId = "wheel" ->
           IF Includes(action, "turn") \/ Includes(action, "wheel")
           THEN "creaks as it turns"
           ELSE IF Includes(action, "touch") \/ Includes(action, "hold")
           THEN "feels warm under your hands"
           ELSE "holds steady"
      [] objId = "boat_1" ->
           IF SomeIncludes(childActions, "creak") \/ SomeIncludes(childActions, "turn")
           THEN "changes course"
           ELSE IF SomeIncludes(childActions, "meow") THEN "rocks gently"
           ELSE "drifts quietly"
      [] OTHER -> "remains still"

\* LLMManager.fallbackReaction(objectContext, playerAction, childActions)
fallbackReaction(objId, action, childActions) ==
    LET keywords == ToLowerCase(action) IN
    CASE objId = "cat_tail" ->
           IF Includes(keywords, "turn") \/ Includes(keywords, "wheel")
           THEN "twitches nervously"
           ELSE IF Includes(keywords, "pet") \/ Includes(keywords, "cat")
           THEN "flicks with pleasure"
           ELSE "sways gently"
      [] objId = "ship_cat" ->
           IF SomeIncludes(childActions, "twitches") THEN "meows softly"
           ELSE IF Includes(keywords, "pet") \/ Includes(keywords, "cat")
           THEN "purrs and rubs against you"
           ELSE "watches alertly"
      [] objId = "wheel" ->
           IF Includes(keywords, "turn") \/ Includes(keywords, "wheel")
           THEN "creaks as it turns"
           ELSE IF Includes(keywords, "touch") \/ Includes(keywords, "hold")
           THEN "feels warm under your hands"
           ELSE "holds steady"
      [] objId = "boat_1" ->
           IF SomeIncludes(childActions, "creak") \/ SomeIncludes(childActions, "turn")
           THEN "changes course through the water"
           ELSE IF SomeIncludes(childActions, "meow") THEN "rocks gently"
           ELSE "drifts quietly"
      [] OTHER -> "remains still"

\* what the capability hands back once LLMManager has parsed its reply
LLMReactions == {"shudders at the touch"}
NarrativeReplies == {"\nThe boat answers your hands.\n"}
\* what callGroq hands back to updateObjectDescription: a description in
\* quotes with no full stop, a reply of under 10 characters, and a reply that
\* repeats the prompt's last line
DescriptionReplies ==
    {"\"Freshly marked by what just happened\"",
     "Rusty.",
     "Updated description: worn smooth and warm."}
\* what callGroq hands back to analyzeRelationshipChanges: no proposal, one
\* proposal, one whose source nothing carries followed by one that resolves,
\* one proposal for an object away from the player, and a response whose first
\* three proposals have a progress above 1, a step count of 0 and a step
\* count that is no number
InferenceResponses ==
    {"NONE",
     "small fishing boat|reached|weathered dock|0.0|2",
     "nobody|reached|weathered dock|0.0|2\nsmall fishing boat|reached|weathered dock|0.0|2",
     "abandoned lighthouse|signals|small fishing boat|0.0|2",
     "Sam|holding|Steering Wheel|1.5|1\nSam|steering|Steering Wheel|1.0|0\nSam|gripping|Steering Wheel|0.0|soon\nsmall fishing boat|reached|weathered dock|0.0|2"}

\* a sequential loop: the call of an object is made once the other calls of
\* its group are over
RequestAfterGroup(kind, objId, via, childActions) ==
    [kind |-> kind, objId |-> objId, via |-> via, childActions |-> childActions,
     known |-> {results[i].objId : i \in 1..Len(results)}
               \cup IF kind = "reaction"
                    THEN {CellId(c) : c \in SeqToSet(Head(depthGroups))}
                            \ {objId}
                    ELSE {}]

\* one capability call of the turn, as the history requests keeps it:
\* known is the set of ids results held when the call was made
Request(kind, objId, via, childActions) ==
    [kind |-> kind, objId |-> objId, via |-> via, childActions |-> childActions,
     known |-> {results[i].objId : i \in 1..Len(results)}]

\* reject with the tick of an accepted turn run first
rejectAfterTick(message) ==
    /\ lastResult' = message
    /\ simulationTime' = simulationTime + 1
    /\ relationships' = progressTimeBasedRelationships(relationships)
    /\ edgeTicks' = TickedOnce(edgeTicks)
    /\ UNCHANGED <<objects, gen, cells, parent, containedObjects, name,
                   description, rootObject, playerObjectId, saved, llm, pc,
                   playerAction, branch, depthGroups, promises, results,
                   requests, response, suspended>>

\* the early returns of processPlayerAction
reject(message) ==
    /\ lastResult' = message
    /\ UNCHANGED <<worldVars, saved, llm, pc, playerAction, branch, depthGroups,
                   promises, results, requests, response, suspended>>

\* the processPlayerAction call in flight, as it stands at its await
Context ==
    [pc |-> pc, playerAction |-> playerAction, branch |-> branch,
     depthGroups |-> depthGroups, promises |-> promises, results |-> results,
     requests |-> requests, response |-> response]

\* World.processPlayerAction(action), up to the first group of simulateBottomUp;
\* a call in flight stays suspended at its await
processPlayerAction(action) ==
    /\ lastCall' = "processPlayerAction"
    /\ IF ~TruthyId(playerObjectId)
       THEN reject("No player object set.")
       ELSE IF ~Truthy(getObject(playerObjectId))
       THEN reject("Player object not found.")
       ELSE LET playerObject == getObject(playerObjectId)
                branchObjects == getSimulationBranch(playerObject)
            IN /\ simulationTime' = simulationTime + 1
               /\ relationships' = progressTimeBasedRelationships(relationships)
               /\ edgeTicks' = TickedOnce(edgeTicks)
               /\ playerAction' = action
               /\ branch' = branchObjects
               /\ depthGroups' = GroupsInOrder(branchObjects)
               /\ promises' = <<>>
               /\ results' = <<>>
               /\ requests' = <<>>
               /\ response' = ""
               /\ suspended' = IF pc = "idle" THEN suspended
                                ELSE Append(suspended, Context)
               /\ pc' = IF branchObjects = <<>>
                        THEN "analyzeAndUpdateRelationships"
                        ELSE "simulateBottomUp"
               /\ UNCHANGED <<objects, gen, cells, parent, containedObjects,
                              name, description, rootObject, playerObjectId,
                              saved, lastResult, llm>>

\* simulateBottomUp, one pass of the for loop up to Promise.all: simulateObject
\* is called for every object of the group, each call runs to its first await
simulateDepth ==
    /\ pc = "simulateBottomUp"
    /\ depthGroups # <<>>
    /\ LET objectsAtDepth == Head(depthGroups)
           calls == [i \in 1..Len(objectsAtDepth) |->
                       [obj |-> objectsAtDepth[i],
                        childActions |-> ChildActions(objectsAtDepth[i], results),
                        via |-> IF CellId(objectsAtDepth[i]) = playerObjectId
                                THEN "player"
                                ELSE IF llm # "unavailable" THEN "capability"
                                ELSE "fallback"]]
           asked == SelectSeq(calls, LAMBDA call : call.via # "player")
       IN /\ promises' = calls
          /\ requests' = requests \o
                [i \in 1..Len(asked) |->
                    Request("reaction", CellId(asked[i].obj), asked[i].via,
                            asked[i].childActions)]
    /\ depthGroups' = Tail(depthGroups)
    /\ pc' = "awaitReactions"
    /\ UNCHANGED <<worldVars, saved, lastResult, lastCall, llm, playerAction,
                   branch, results, response, suspended>>

\* depthResults.forEach(({ objId, action }) => results.set(objId, action))
RECURSIVE StoreResults(_, _, _)
StoreResults(entries, depthResults, i) ==
    IF i = 0 THEN entries
    ELSE CHOOSE after \in
            {MapSet(before, depthResults[i].objId, depthResults[i].action) :
                before \in {StoreResults(entries, depthResults, i - 1)}} : TRUE

\* simulateObject with no catch around the capability call: a call that
\* throws leaves no reaction
ReactionOfUncaught(call, reaction, raises) ==
    CASE call.via = "player" -> playerAction
      [] call.via = "fallback" ->
           getBasicReaction(CellId(call.obj), playerAction, call.childActions)
      [] OTHER -> IF raises THEN UndefinedId ELSE reaction

\* what one simulateObject call resolves to; raises: callGroq threw for it
ReactionOf(call, reaction, raises) ==
    CASE call.via = "player" -> playerAction
      [] call.via = "fallback" ->
           getBasicReaction(CellId(call.obj), playerAction, call.childActions)
      [] OTHER ->
           IF raises
           THEN fallbackReaction(CellId(call.obj), playerAction, call.childActions)
           ELSE reaction

\* the calls of the pending group that callGroq throws for: none while the
\* capability responds; while it fails, at least one of the calls made
\* together, so a call made alone always throws
RaisedSets ==
    LET asked == {i \in 1..Len(promises) : promises[i].via = "capability"} IN
    CASE llm = "responding" -> {{}}
      [] llm = "failing" -> {S \in SUBSET asked : S # {} \/ asked = {}}
      [] OTHER -> {asked}

\* simulateBottomUp after Promise.all: every call of the group has settled,
\* the group's results are stored
reactionsSettle ==
    /\ pc = "awaitReactions"
    /\ \E reaction \in LLMReactions, raised \in RaisedSets :
          results' = StoreResults(results,
                        [i \in 1..Len(promises) |->
                            [objId |-> CellId(promises[i].obj),
                             action |-> ReactionOf(promises[i], reaction,
                                                   i \in raised)]],
                        Len(promises))
    /\ promises' = <<>>
    /\ pc' = IF depthGroups = <<>> THEN "analyzeAndUpdateRelationships"
             ELSE "simulateBottomUp"
    /\ UNCHANGED <<worldVars, saved, lastResult, lastCall, llm, playerAction,
                   branch, depthGroups, requests, response, suspended>>

\* the entries of results that updateObjectDescriptions and
\* analyzeAndUpdateRelationships act on
Meaningful(entries) ==
    SelectSeq(entries, LAMBDA entry :
        Truthy(getObject(entry.objId)) /\ entry.action # "remains still")

\* World.analyzeAndUpdateRelationships, up to the capability call
analyzeAndUpdateRelationships ==
    /\ pc = "analyzeAndUpdateRelationships"
    /\ IF llm = "unavailable" \/ Meaningful(results) = <<>>
       THEN /\ pc' = "narrate"
            /\ UNCHANGED requests
       ELSE /\ pc' = "awaitInference"
            /\ requests' = Append(requests,
                              Request("inference", NullId, "capability", <<>>))
    /\ UNCHANGED <<worldVars, saved, lastResult, lastCall, llm, playerAction,
                   branch, depthGroups, promises, results, response, suspended>>

\* the loop over the changes left at the first change whose source or target
\* is not found
RECURSIVE ApplyChangesUntilMiss(_, _, _, _)
ApplyChangesUntilMiss(rels, ticks, changes, i) ==
    IF i = 0 THEN [rels |-> rels, ticks |-> ticks]
    ELSE IF \E j \in 1..i : \/ ~Truthy(getObjectByName(changes[j].from))
                            \/ ~Truthy(getObjectByName(changes[j].to))
    THEN ApplyChangesUntilMiss(rels, ticks, changes, i - 1)
    ELSE CHOOSE after \in
            {applyRelationshipChange(before.rels, before.ticks, changes[i]) :
                before \in {ApplyChangesUntilMiss(rels, ticks, changes, i - 1)}} :
                    TRUE

\* for (const change of relationshipChanges) this.applyRelationshipChange(change)
RECURSIVE ApplyChanges(_, _, _, _)
ApplyChanges(rels, ticks, changes, i) ==
    IF i = 0 THEN [rels |-> rels, ticks |-> ticks]
    ELSE CHOOSE after \in
            {applyRelationshipChange(before.rels, before.ticks, changes[i]) :
                before \in {ApplyChanges(rels, ticks, changes, i - 1)}} : TRUE

\* LLMManager.analyzeRelationshipChanges: what each response parses to
relationshipChangesOf ==
    [reply \in InferenceResponses |-> parseRelationshipChanges(reply)]

\* analyzeAndUpdateRelationships without its catch: the error of
\* analyzeRelationshipChanges leaves processPlayerAction as a rejection
inferenceSettlesUncaught ==
    /\ pc = "awaitInference"
    /\ IF llm = "responding"
       THEN /\ \E reply \in InferenceResponses :
                 \E relationshipChanges \in {relationshipChangesOf[reply]} :
                    \E after \in {ApplyChanges(relationships, edgeTicks,
                                               relationshipChanges,
                                               Len(relationshipChanges))} :
                       /\ relationships' = after.rels
                       /\ edgeTicks' = after.ticks
                       /\ response' = reply
            /\ pc' = "narrate"
            /\ UNCHANGED <<lastResult, playerAction, branch, depthGroups,
                           promises, results, requests>>
       ELSE /\ lastResult' = "rejected"
            /\ pc' = "idle"
            /\ playerAction' = ""
            /\ branch' = <<>>
            /\ depthGroups' = <<>>
            /\ promises' = <<>>
            /\ results' = <<>>
            /\ requests' = <<>>
            /\ UNCHANGED <<relationships, edgeTicks, response>>
    /\ UNCHANGED <<objects, gen, cells, parent, containedObjects, name,
                   description, rootObject, playerObjectId, simulationTime,
                   saved, lastCall, llm, suspended>>

\* World.analyzeAndUpdateRelationships once analyzeRelationshipChanges settles:
\* a failed call yields no response and no changes
inferenceSettles ==
    /\ pc = "awaitInference"
    /\ \E reply \in InferenceResponses :
          \E relationshipChanges \in {IF llm = "responding"
                                      THEN relationshipChangesOf[reply]
                                      ELSE <<>>} :
             \E after \in {ApplyChanges(relationships, edgeTicks,
                                        relationshipChanges,
                                        Len(relationshipChanges))} :
                /\ relationships' = after.rels
                /\ edgeTicks' = after.ticks
                /\ response' = IF llm = "responding" THEN reply ELSE ""
    /\ pc' = "narrate"
    /\ UNCHANGED <<objects, gen, cells, parent, containedObjects, name,
                   description, rootObject, playerObjectId, simulationTime,
                   saved, lastResult, lastCall, llm, playerAction, branch,
                   depthGroups, promises, results, requests, suspended>>

\* narratePlayerExperience reaches generateNarrative
Narrates ==
    /\ Truthy(getObject(playerObjectId))
    /\ Truthy(parent[getObject(playerObjectId)])

\* addObjectRelationships leaving out the edges whose target is not found
addObjectRelationshipsResolved(obj) ==
    LET found == SelectSeq(relationships[obj],
                           LAMBDA rel : Truthy(getObject(rel.to)))
    IN [i \in 1..Len(found) |->
           [from |-> name[obj],
            relationship |-> found[i].relationship,
            to |-> name[getObject(found[i].to)],
            progress |-> found[i].progress,
            progressTime |-> found[i].progressTime]]

\* addObjectRelationships(obj) of narratePlayerExperience: the entries it
\* pushes, a target that is not in the store given by its id
addObjectRelationships(obj) ==
    [i \in 1..Len(relationships[obj]) |->
        LET rel == relationships[obj][i]
            target == getObject(rel.to)
        IN [from |-> name[obj],
            relationship |-> rel.relationship,
            to |-> IF Truthy(target) THEN name[target] ELSE rel.to,
            progress |-> rel.progress,
            progressTime |-> rel.progressTime]]

\* objs.forEach(addObjectRelationships), for the objects 1..i
RECURSIVE RelationshipsOfAll(_, _)
RelationshipsOfAll(objs, i) ==
    IF i = 0 THEN <<>>
    ELSE RelationshipsOfAll(objs, i - 1) \o addObjectRelationships(objs[i])

\* the children of the objects 1..i, in order
RECURSIVE ChildrenOfAll(_, _)
ChildrenOfAll(objs, i) ==
    IF i = 0 THEN <<>>
    ELSE ChildrenOfAll(objs, i - 1) \o containedObjects[objs[i]]

\* narratePlayerExperience: allRelevantRelationships, of the player, its
\* container, its siblings and the children of all of these
allRelevantRelationships ==
    LET playerObject == getObject(playerObjectId)
        playerParent == parent[playerObject]
        siblings == SelectSeq(containedObjects[playerParent],
                              LAMBDA obj : CellId(obj) # playerObjectId)
        allVisibleObjects == <<playerObject, playerParent>> \o siblings
        children == ChildrenOfAll(allVisibleObjects, Len(allVisibleObjects))
    IN RelationshipsOfAll(allVisibleObjects, Len(allVisibleObjects))
          \o RelationshipsOfAll(children, Len(children))

\* Math.round(x * 100) as it is printed
RoundedPercent(x) ==
    IF isNaN(x) THEN "NaN"
    ELSE ToString((200 * ToNumber(x)[1] + ToNumber(x)[2]) \div (2 * ToNumber(x)[2]))

\* the lines World.describe prints for the relationships 1..i of obj
RECURSIVE RelationshipLines(_, _)
RelationshipLines(obj, i) ==
    IF i = 0 THEN ""
    ELSE LET rel == relationships[obj][i]
             target == getObject(rel.to)
             progressStr == IF rel.progress # NullNum
                            THEN " (" \o RoundedPercent(rel.progress) \o "%)"
                            ELSE ""
         IN RelationshipLines(obj, i - 1)
               \o "    - " \o rel.relationship \o " "
               \o (IF Truthy(target) THEN name[target] ELSE rel.to)
               \o progressStr \o "\n"

\* the lines World.describe prints for the contained objects 1..i (the
\* bullet written as an asterisk)
RECURSIVE ContentLines(_, _)
ContentLines(objs, i) ==
    IF i = 0 THEN ""
    ELSE ContentLines(objs, i - 1)
            \o "  * " \o name[objs[i]] \o ": " \o description[objs[i]] \o "\n"
            \o RelationshipLines(objs[i], Len(relationships[objs[i]]))

\* World.describe(focusObjectId)
describe(focusObjectId) ==
    LET focusObject == IF TruthyId(focusObjectId) THEN getObject(focusObjectId)
                       ELSE rootObject
    IN IF ~Truthy(focusObject) THEN "The void stares back."
       ELSE "=== " \o name[focusObject] \o " ===\n"
               \o description[focusObject] \o "\n\n"
               \o (IF Len(containedObjects[focusObject]) > 0
                   THEN "Contents:\n"
                           \o ContentLines(containedObjects[focusObject],
                                           Len(containedObjects[focusObject]))
                   ELSE "")

\* phase 2 of processPlayerAction up to Promise.all: narratePlayerExperience
\* and updateObjectDescriptions make their calls; the narration request
\* carries allRelevantRelationships
narrateAndUpdate ==
    /\ pc = "narrate"
    /\ LET rewritten == IF llm = "unavailable" THEN <<>> ELSE Meaningful(results)
       IN requests' = requests
             \o (IF Narrates /\ llm # "unavailable"
                 THEN <<[kind |-> "narration", objId |-> playerObjectId,
                         via |-> "capability", childActions |-> <<>>,
                         known |-> {results[i].objId : i \in 1..Len(results)},
                         relationships |-> allRelevantRelationships]>>
                 ELSE <<>>)
             \o [i \in 1..Len(rewritten) |->
                    Request("rewrite", rewritten[i].objId, "capability", <<>>)]
    /\ pc' = "awaitNarrative"
    /\ UNCHANGED <<worldVars, saved, lastResult, lastCall, llm, playerAction,
                   branch, depthGroups, promises, results, response, suspended>>

\* narratePlayerExperience without its catch: the error of generateNarrative
\* leaves processPlayerAction as a rejection
NarrativeUncaught(reply) ==
    IF ~Truthy(getObject(playerObjectId))
    THEN "\nSomething seems wrong - you can't sense yourself.\n"
    ELSE IF ~Truthy(parent[getObject(playerObjectId)])
    THEN "\nYou float in an empty void.\n"
    ELSE IF llm # "responding" THEN "rejected"
    ELSE reply

\* what narratePlayerExperience resolves to (the error strings without their
\* leading mark)
Narrative(reply) ==
    IF ~Truthy(getObject(playerObjectId))
    THEN "\nSomething seems wrong - you can't sense yourself.\n"
    ELSE IF ~Truthy(parent[getObject(playerObjectId)])
    THEN "\nYou float in an empty void.\n"
    ELSE IF llm = "unavailable"
    THEN "\nNarrative Error: LLM not available. Please configure your API key in config.js or use setApiKey().\n\nTip: Use checkLLM() to verify your setup.\n"
    ELSE IF llm # "responding"
    THEN "\nNarrative Error: LLM narrative generation failed: request failed\n\nTip: Use checkLLM() to verify your setup.\n"
    ELSE reply

\* response.replace(/["']/g, '')
RECURSIVE RemoveQuotes(_)
RemoveQuotes(s) ==
    IF Len(s) = 0 THEN s
    ELSE IF SubSeq(s, 1, 1) \in {"\"", "'"}
    THEN RemoveQuotes(SubSeq(s, 2, Len(s)))
    ELSE SubSeq(s, 1, 1) \o RemoveQuotes(SubSeq(s, 2, Len(s)))

\* parseDescriptionResponse accepting whatever the reply holds
parseDescriptionResponseUnchecked(reply, fallbackDescription) ==
    LET cleaned == Trim(RemoveQuotes(reply)) IN
    IF Len(cleaned) > 0
       /\ SubSeq(cleaned, Len(cleaned), Len(cleaned))
             \notin {".", "!", "?"}
    THEN cleaned \o "."
    ELSE cleaned

\* LLMManager.parseDescriptionResponse(reply, fallbackDescription)
parseDescriptionResponse(reply, fallbackDescription) ==
    LET cleaned == Trim(RemoveQuotes(reply)) IN
    IF \/ Len(cleaned) < 10
       \/ Includes(ToLowerCase(cleaned), "updated description")
    THEN fallbackDescription
    ELSE IF SubSeq(cleaned, Len(cleaned), Len(cleaned))
               \notin {".", "!", "?"}
    THEN cleaned \o "."
    ELSE cleaned

\* parseDescriptionResponse computed once for each reply, with undefined
\* standing for the fallback description
ParsedReplies ==
    [reply \in DescriptionReplies |-> parseDescriptionResponse(reply, UndefinedId)]

\* LLMManager.updateObjectDescription for a call made while the capability
\* is available; raises: callGroq threw for it
updateObjectDescription(oldDescription, reply, raises) ==
    IF raises \/ ParsedReplies[reply] = UndefinedId THEN oldDescription
    ELSE ParsedReplies[reply]

\* the rewrite calls callGroq throws for, by object id: none while the
\* capability responds, any of them while it is intermittent, all of them
\* otherwise
RewriteRaisedSets ==
    LET asked == {Meaningful(results)[i].objId :
                     i \in 1..Len(Meaningful(results))} IN
    CASE llm = "responding" -> {{}}
      [] llm = "intermittent" -> SUBSET asked
      [] OTHER -> {asked}

\* phase 2 after Promise.all: the rewrites that came back are stored and
\* processPlayerAction returns the narrative
turnReturns ==
    /\ pc = "awaitNarrative"
    /\ \E reply \in NarrativeReplies : lastResult' = Narrative(reply)
    /\ \E scheduled \in {{Meaningful(results)[i].objId :
                               i \in 1..Len(Meaningful(results))}} :
          \E reply \in DescriptionReplies, raised \in RewriteRaisedSets :
             description' =
                [c \in DOMAIN description |->
                   IF /\ llm # "unavailable"
                      /\ c \in StoreCells
                      /\ CellId(c) \in scheduled
                   THEN updateObjectDescription(description[c], reply,
                                                CellId(c) \in raised)
                   ELSE description[c]]
    /\ pc' = "idle"
    /\ playerAction' = ""
    /\ branch' = <<>>
    /\ depthGroups' = <<>>
    /\ promises' = <<>>
    /\ results' = <<>>
    /\ requests' = <<>>
    /\ response' = ""
    /\ UNCHANGED <<objects, gen, cells, parent, containedObjects, name,
                   relationships, edgeTicks, rootObject, playerObjectId,
                   simulationTime, saved, lastCall, llm, suspended>>

(***************************************************************************)
(* Specification of the turn: the starting scenario, a room created at     *)
(* root level, the player id assigned by the client, and turns             *)
(***************************************************************************)
MaxTurns == 2     \* turns accepted

ActionInputs == {"turn the wheel", "Pet the cat"}
PlayerInputs == {"sam", "ocean", GhostId, NullId}

\* a turn requested by a client that makes its calls one after the other
ProcessPlayerAction ==
    \E action \in ActionInputs :
        /\ simulationTime < MaxTurns
        /\ pc = "idle"
        /\ processPlayerAction(action)

\* world.playerObjectId = id, the client's assignment (initializeWorld)
SetPlayer ==
    \E id \in PlayerInputs :
        /\ pc = "idle"
        /\ playerObjectId' = id
        /\ lastCall' = "setPlayer"
        /\ UNCHANGED <<objects, gen, cells, parent, containedObjects, name,
                       description, relationships, edgeTicks, rootObject,
                       simulationTime, saved, lastResult, llm, pc, playerAction,
                       branch, depthGroups, promises, results, requests,
                       response, suspended>>

\* terminal command 'create': the object goes to root level
CreateRoom ==
    /\ pc = "idle"
    /\ createObject("room_1", "Distant Room", "A room far from the sea.", NullId)
    /\ lastCall' = "createObject"
    /\ UNCHANGED <<llm, pc, playerAction, branch, depthGroups, promises,
                   results, requests, response, suspended>>

\* LLMManager.checkProxyHealth() settles, or the proxy's state changes
CheckProxyHealth ==
    /\ pc = "idle"
    /\ llm' \in {"unavailable", "responding", "failing"}
    /\ lastCall' = "checkProxyHealth"
    /\ UNCHANGED <<worldVars, saved, lastResult, pc, playerAction, branch,
                   depthGroups, promises, results, requests, response, suspended>>

NextTurn ==
    \/ ProcessPlayerAction
    \/ simulateDepth
    \/ reactionsSettle
    \/ analyzeAndUpdateRelationships
    \/ inferenceSettles
    \/ narrateAndUpdate
    \/ turnReturns
    \/ SetPlayer
    \/ CreateRoom
    \/ CheckProxyHealth

SpecTurn == InitDemo /\ [][NextTurn]_vars

\* the next step of the call in flight (pc enables one of them at a time)
TurnStep ==
    \/ simulateDepth
    \/ reactionsSettle
    \/ analyzeAndUpdateRelationships
    \/ inferenceSettles
    \/ narrateAndUpdate
    \/ turnReturns

\* the call in flight takes its next step in the end: the synchronous parts
\* run to completion, and each awaited external call settles
SpecTurnFair == SpecTurn /\ WF_vars(TurnStep)

(***************************************************************************)
(* Specification of snapshots: the starting scenario, the terminal's       *)
(* relate, move, save and load typed between turns, an edge with steps     *)
(* upserted from the console, and turns without the capability             *)
(***************************************************************************)
RelateSources == {"boat_1", GhostId}
RelateProgressArgs == {UndefinedId, "0.5", "1.5", "abc"}
MoveTargets == {"boat_1", "lighthouse_1", GhostId}

RelateBoat ==
    \E fromId \in RelateSources, progressArg \in RelateProgressArgs :
        /\ pc = "idle"
        /\ relate(fromId, "reached", "dock_1", progressArg)
        /\ UNCHANGED turnVars

\* world.getObject('boat_1').addRelationship('reached', 'dock_1', 0, 2)
UpsertWithSteps ==
    /\ pc = "idle"
    /\ AddRelationshipCall("boat_1", "reached", "dock_1", Integer(0), Integer(2))
    /\ UNCHANGED turnVars

MoveWheel ==
    \E newParentId \in MoveTargets :
        /\ pc = "idle"
        /\ moveObject("wheel", newParentId)
        /\ UNCHANGED turnVars

SaveBetweenTurns == pc = "idle" /\ Save
LoadBetweenTurns == pc = "idle" /\ Load

TurnTheWheel ==
    /\ simulationTime < MaxTurns
    /\ pc = "idle"
    /\ processPlayerAction("turn the wheel")

NextSnapshot ==
    \/ RelateBoat
    \/ UpsertWithSteps
    \/ MoveWheel
    \/ SaveBetweenTurns
    \/ LoadBetweenTurns
    \/ TurnTheWheel
    \/ simulateDepth
    \/ reactionsSettle
    \/ analyzeAndUpdateRelationships
    \/ narrateAndUpdate
    \/ turnReturns

SpecSnapshot == InitDemo /\ [][NextSnapshot]_vars

(***************************************************************************)
(* Specification of rewrites: turns of the starting scenario with a        *)
(* capability that answers some of the calls made together and throws for  *)
(* the others, and an object created away from the player                  *)
(***************************************************************************)
\* callGroq starts to throw now and then: from here on it throws for every
\* reaction, inference and narration call and for any of the rewrite calls
ProxyFalters ==
    /\ pc = "idle"
    /\ llm' = "intermittent"
    /\ lastCall' = "callGroq"
    /\ UNCHANGED <<worldVars, saved, lastResult, pc, playerAction, branch,
                   depthGroups, promises, results, requests, response, suspended>>

\* world.createObject under a parent id the store does not hold: the new
\* object has no container and is not the root
CreateAdrift ==
    /\ pc = "idle"
    /\ createObject("room_1", "Distant Room", "A room far from the sea.", GhostId)
    /\ lastCall' = "createObject"
    /\ UNCHANGED <<llm, pc, playerAction, branch, depthGroups, promises,
                   results, requests, response, suspended>>

NextRewrite ==
    \/ ProxyFalters
    \/ CreateAdrift
    \/ TurnTheWheel
    \/ TurnStep

SpecRewrite == InitDemo /\ [][NextRewrite]_vars

(***************************************************************************)
(* Specification of rearranged snapshots: a world built by createObject,   *)
(* moveObject and addRelationship is saved, and the save is loaded with    *)
(* its entries in any order, some of them possibly taken out               *)
(***************************************************************************)
\* the ways to list some of n entries, each at most once, in some order
Arrangements(n) ==
    {order \in UNION {[1..k -> 1..n] : k \in 0..n} :
        \A i, j \in DOMAIN order : order[i] = order[j] => i = j}

\* boat.addRelationship('docked_at', 'dock_1') by a client
RelateInForest ==
    /\ AddRelationshipCall("boat_1", "docked_at", "dock_1", NullNum, NullNum)
    /\ UNCHANGED turnVars

\* world.import(data) for data read from a save whose entries were put in
\* another order or taken out
LoadRearranged ==
    /\ saved # <<>>
    /\ \E order \in Arrangements(Len(saved[1].objects)) :
          import([saved[1] EXCEPT !.objects =
                    [i \in 1..Len(order) |-> saved[1].objects[order[i]]]])
    /\ lastResult' = "loaded"
    /\ UNCHANGED <<saved, turnVars>>

\* the world is built before it is saved, and saved once
CreateBeforeSave == saved = <<>> /\ CreateInForest
MoveBeforeSave == saved = <<>> /\ MoveInForest
RelateBeforeSave == saved = <<>> /\ RelateInForest
SaveOnce == saved = <<>> /\ Save

NextPermuted ==
    \/ CreateBeforeSave
    \/ MoveBeforeSave
    \/ RelateBeforeSave
    \/ SaveOnce
    \/ LoadRearranged

SpecPermuted == InitEmpty /\ [][NextPermuted]_vars

(***************************************************************************)
(* Specification of names: objects created from the console with ids and   *)
(* display names of the client's choosing, and inferred changes applied to *)
(* the objects their names resolve to                                      *)
(***************************************************************************)
NamedIds == {"Wheel", "spare_1", "boat_1"}
DisplayNames == {"Wheel", "Spare Wheel"}
\* names as parseRelationshipChanges passes them on: lower case
LookupNames == {"wheel", "spare wheel", "boat_1", "nobody"}

CreateNamed ==
    \E id \in NamedIds, nm \in DisplayNames :
        /\ createObject(id, nm, "", NullId)
        /\ UNCHANGED turnVars

\* world.applyRelationshipChange({from, relationship: 'near', to: 'boat_1', ...})
ApplyToNamed ==
    \E from \in LookupNames :
        \E after \in {applyRelationshipChange(relationships, edgeTicks,
                          [from |-> from, relationship |-> "near",
                           to |-> "boat_1", progress |-> Integer(0),
                           progressTime |-> Integer(1)])} :
            /\ relationships' = after.rels
            /\ edgeTicks' = after.ticks
            /\ lastResult' = "undefined"
            /\ UNCHANGED <<objects, gen, cells, parent, containedObjects, name,
                           description, rootObject, playerObjectId,
                           simulationTime, saved>>
            /\ UNCHANGED turnVars

NextNames ==
    \/ CreateNamed
    \/ ApplyToNamed

SpecNames == InitEmpty /\ [][NextNames]_vars

(***************************************************************************)
(* Specification of dangling targets: the starting scenario, edges to an   *)
(* id that is not in the store added from the terminal and the console,    *)
(* the terminal's look, and turns                                          *)
(***************************************************************************)
LookTargets == {"dock_1", "boat_1"}

\* relate boat_1 reached ghost [0.5]
RelateGhost ==
    \E progressArg \in {UndefinedId, "0.5"} :
        /\ pc = "idle"
        /\ relate("boat_1", "reached", GhostId, progressArg)
        /\ UNCHANGED turnVars

\* world.getObject('sam').addRelationship('seeking', 'ghost', 0, 2)
UpsertGhost ==
    /\ pc = "idle"
    /\ AddRelationshipCall("sam", "seeking", GhostId, Integer(0), Integer(2))
    /\ UNCHANGED turnVars

\* terminal command 'look': world.describe(targetId)
Look ==
    \E targetId \in LookTargets :
        /\ pc = "idle"
        /\ lastResult' = describe(targetId)
        /\ lastCall' = "describe"
        /\ UNCHANGED <<worldVars, saved, llm, pc, playerAction, branch,
                       depthGroups, promises, results, requests, response,
                       suspended>>

NextDangling ==
    \/ RelateGhost
    \/ UpsertGhost
    \/ Look
    \/ CheckProxyHealth
    \/ TurnTheWheel
    \/ TurnStep

SpecDangling == InitDemo /\ [][NextDangling]_vars

(***************************************************************************)
(* Specification of overlapping turns: the terminal reads the next line    *)
(* while the call made for an earlier line waits for the proxy             *)
(***************************************************************************)
AwaitPoints == {"awaitReactions", "awaitInference", "awaitNarrative"}

\* ASCIITerminal.processCommand, default case: the line is passed to
\* processPlayerAction whether or not an earlier call has returned; the keydown
\* event is delivered while the call in flight waits for a fetch
TypeAction ==
    \E action \in ActionInputs :
        /\ simulationTime < MaxTurns
        /\ pc = "idle" \/ (pc \in AwaitPoints /\ llm # "unavailable")
        /\ processPlayerAction(action)

\* the event loop continues another call in flight: the running one is at an
\* await or has returned
Resume ==
    \E i \in 1..Len(suspended) :
        /\ pc \in AwaitPoints \cup {"idle"}
        /\ pc' = suspended[i].pc
        /\ playerAction' = suspended[i].playerAction
        /\ branch' = suspended[i].branch
        /\ depthGroups' = suspended[i].depthGroups
        /\ promises' = suspended[i].promises
        /\ results' = suspended[i].results
        /\ requests' = suspended[i].requests
        /\ response' = suspended[i].response
        /\ suspended' = SubSeq(suspended, 1, i - 1)
                           \o SubSeq(suspended, i + 1, Len(suspended))
                           \o (IF pc = "idle" THEN <<>> ELSE <<Context>>)
        /\ UNCHANGED <<worldVars, saved, lastResult, lastCall, llm>>

NextOverlap ==
    \/ TypeAction
    \/ Resume
    \/ simulateDepth
    \/ reactionsSettle
    \/ analyzeAndUpdateRelationships
    \/ inferenceSettles
    \/ narrateAndUpdate
    \/ turnReturns
    \/ CheckProxyHealth

SpecOverlap == InitDemo /\ [][NextOverlap]_vars

(***************************************************************************)
(* Containment properties                                                  *)
(***************************************************************************)
Count(s, x) == Cardinality({i \in 1..Len(s) : s[i] = x})

\* C1: containment consistency.  Every object has one parent field, is listed
\* at most once in any child list, and is listed in P's children exactly when
\* its parent is P; so no object is listed under two parents.
C1_ContainmentConsistent ==
    \A E \in cells :
        /\ Truthy(parent[E]) => parent[E] \in cells
        /\ \A P \in cells :
              /\ Count(containedObjects[P], E) <= 1
              /\ (Count(containedObjects[P], E) = 1) <=> (parent[E] = P)

\* C1 witness: after an import, an object moved by moveObject or addChild
\* sits as second child of its new parent while the store holds two objects
C1_Witness ==
    /\ saved # <<>>
    /\ lastResult = "true"
    /\ \E P \in StoreCells : Len(containedObjects[P]) >= 1
    /\ \E E \in StoreCells : Truthy(parent[E]) /\ parent[E] \notin StoreCells

\* the objects on the parent chain of c, c excluded, found in at most
\* n steps
RECURSIVE AncestorsWithin(_, _, _)
AncestorsWithin(par, c, n) ==
    IF n = 0 \/ ~Truthy(par[c]) THEN {}
    ELSE {par[c]} \cup AncestorsWithin(par, par[c], n - 1)

Ancestors(c) == AncestorsWithin(parent, c, Cardinality(cells))

\* C2: the containment graph is a forest: no object is its own ancestor
C2_Forest == \A c \in cells : c \notin Ancestors(c)

(***************************************************************************)
(* Ledger properties                                                       *)
(***************************************************************************)
\* the edge at position i of c was created with numeric progress P in [0, 1]
\* and total steps N > 0
Progressing(rel) ==
    /\ rel.initialProgress # NullNum
    /\ LessEq(Integer(0), rel.initialProgress)
    /\ LessEq(rel.initialProgress, Integer(1))
    /\ rel.initialProgressTime # NullNum
    /\ Less(Integer(0), rel.initialProgressTime)

\* this step ran one tick over the edge at position i of c and did not
\* upsert it
TickedEdge(c, i) ==
    /\ c \in StoreCells
    /\ i \in 1..Len(relationships[c])
    /\ i \in 1..Len(relationships'[c])
    /\ SameEdge(relationships'[c][i], relationships[c][i].relationship,
                relationships[c][i].to)
    /\ edgeTicks'[c][i] = edgeTicks[c][i] + 1

\* the N-th tick since the edge was pushed
NthTick(c, i) ==
    Integer(edgeTicks'[c][i]) = relationships[c][i].initialProgressTime

\* C7 as stated: over a tick progress never decreases, and after exactly N
\* ticks progress is 1.0 and remaining steps is 0
C7_AsStated ==
    [][\A c \in cells : \A i \in 1..Len(relationships[c]) :
          (TickedEdge(c, i) /\ Progressing(relationships[c][i])) =>
             /\ LessEq(relationships[c][i].progress, relationships'[c][i].progress)
             /\ NthTick(c, i) =>
                  /\ relationships'[c][i].progress = Integer(1)
                  /\ relationships'[c][i].progressTime = Integer(0)]_vars

\* C7 amended: over a tick progress never decreases, and after exactly N ticks
\* progress is 1.0; remaining steps is then 0 provided progress was still
\* below 1.0 before the N-th tick, while an edge whose progress already is 1.0
\* (one created with P = 1.0) is left as it is and keeps its remaining steps
C7_MonotoneConvergence ==
    [][\A c \in cells : \A i \in 1..Len(relationships[c]) :
          (TickedEdge(c, i) /\ Progressing(relationships[c][i])) =>
             /\ LessEq(relationships[c][i].progress, relationships'[c][i].progress)
             /\ NthTick(c, i) =>
                  /\ relationships'[c][i].progress = Integer(1)
                  /\ IF Less(relationships[c][i].progress, Integer(1))
                     THEN relationships'[c][i].progressTime = Integer(0)
                     ELSE relationships'[c][i] = relationships[c][i]]_vars

\* C7 witness: an edge pushed with P = 1/2 and N = 2 has been ticked twice:
\* it went through 3/4 and now stands at progress 1 with no steps remaining
C7_Witness ==
    \E c \in StoreCells : \E i \in 1..Len(relationships[c]) :
        /\ relationships[c][i].initialProgress = Num(1, 2)
        /\ relationships[c][i].initialProgressTime = Integer(2)
        /\ edgeTicks[c][i] = 2
        /\ relationships[c][i].progress = Integer(1)
        /\ relationships[c][i].progressTime = Integer(0)

EdgeKey(rel) == <<rel.relationship, rel.to>>
EdgeKeys(rels) == {EdgeKey(rels[i]) : i \in 1..Len(rels)}

\* this step pushed an edge on c
Upserted(c) ==
    /\ relationships'[c] # relationships[c] \/ edgeTicks'[c] # edgeTicks[c]
    /\ Len(edgeTicks'[c]) > 0
    /\ edgeTicks'[c][Len(edgeTicks'[c])] = 0

\* C8: upsert uniqueness.  A source holds at most one edge per (type, target)
\* pair; an upsert of a pair the source holds replaces that edge by one whose
\* progress and remaining steps are the initial pair just given and leaves the
\* edge count as it was; an upsert of a new pair adds exactly one edge; no
\* other step changes the pairs a source holds.
C8_UpsertUnique ==
    [][\A c \in StoreCells :
          LET old == relationships[c]
              new == relationships'[c]
              last == new[Len(new)]
          IN /\ Cardinality(EdgeKeys(old)) = Len(old)
             /\ Cardinality(EdgeKeys(new)) = Len(new)
             /\ IF Upserted(c)
                THEN /\ last.progress = last.initialProgress
                     /\ last.progressTime = last.initialProgressTime
                     /\ IF EdgeKey(last) \in EdgeKeys(old)
                        THEN Len(new) = Len(old) /\ EdgeKeys(new) = EdgeKeys(old)
                        ELSE Len(new) = Len(old) + 1
                     /\ edgeTicks'[c][Len(new)] = 0
                ELSE [i \in 1..Len(new) |-> EdgeKey(new[i])]
                       = [i \in 1..Len(old) |-> EdgeKey(old[i])]]_vars

\* C8 witness: the boat's starting edge (docked_at, dock_1), which tracked no
\* steps, has been replaced by an upsert that does, and the boat holds a
\* second pair as well
C8_Witness ==
    LET rels == relationships[<<gen, "boat_1">>] IN
    /\ Len(rels) = 2
    /\ rels[2].relationship = "docked_at"
    /\ rels[2].to = "dock_1"
    /\ rels[2].initialProgressTime = Integer(2)
    /\ rels[2].progressTime = Integer(1)
    /\ rels[1].relationship = "reached"

(***************************************************************************)
(* Turn properties                                                         *)
(***************************************************************************)
\* the descendants of c, by closure over containedObjects
RECURSIVE ChildClosure(_)
ChildClosure(S) ==
    LET T == S \cup UNION {SeqToSet(containedObjects[d]) : d \in S} IN
    IF T = S THEN S ELSE ChildClosure(T)

DescendantsOf(c) == ChildClosure(SeqToSet(containedObjects[c]))

BranchSet == SeqToSet(branch)
Player == getObject(playerObjectId)

\* the objects simulateObject was called for so far in this turn, the player
\* aside
Asked == {requests[i].objId : i \in {j \in 1..Len(requests) :
                                        requests[j].kind = "reaction"}}

\* reaction resolution of the turn in flight is over
Resolved == pc \in {"analyzeAndUpdateRelationships", "awaitInference",
                    "narrate", "awaitNarrative"}

\* C3: children react before their containers.  Whenever a reaction request
\* has been made for an object, each of its children in the branch had its
\* reaction stored in results when the request was made.
C3_ChildrenFirst ==
    \A i \in 1..Len(requests) :
        requests[i].kind = "reaction" =>
            \A child \in SeqToSet(containedObjects[getObject(requests[i].objId)]) :
                child \in BranchSet => CellId(child) \in requests[i].known

\* C4: the fallback scenario.  With no capability, sam inside boat_1 and the
\* action 'turn the wheel', once reaction resolution is over the stored
\* reaction of wheel is 'creaks as it turns' and that of boat_1 is 'changes
\* course'.
C4_FallbackScenario ==
    (/\ Resolved
     /\ llm = "unavailable"
     /\ playerObjectId = "sam"
     /\ parent[<<gen, "sam">>] = <<gen, "boat_1">>
     /\ playerAction = "turn the wheel")
    => /\ MapGet(results, "wheel") = "creaks as it turns"
       /\ MapGet(results, "boat_1") = "changes course"

\* C5: during a turn the branch holds every ancestor of the player and every
\* descendant of each ancestor, hence the player, the player's siblings and
\* the siblings of the player's container's container.
C5_BranchCoversAncestors ==
    pc # "idle" =>
        /\ \A a \in Ancestors(Player) :
              a \in BranchSet /\ DescendantsOf(a) \subseteq BranchSet
        /\ Truthy(parent[Player]) =>
              /\ Player \in BranchSet
              /\ SeqToSet(containedObjects[parent[Player]]) \subseteq BranchSet
              /\ Truthy(parent[parent[Player]]) =>
                    (Truthy(parent[parent[parent[Player]]]) =>
                        SeqToSet(containedObjects[parent[parent[parent[Player]]]])
                            \subseteq BranchSet)

\* C5 witness: a turn of sam is in flight; sam is three levels below island_1,
\* and the branch holds lighthouse_1, the sibling of sam's container's
\* container dock_1, and cat_tail, two levels below sam's container
C5_Witness ==
    /\ pc = "simulateBottomUp"
    /\ playerObjectId = "sam"
    /\ parent[parent[parent[<<gen, "sam">>]]] = <<gen, "island_1">>
    /\ <<gen, "lighthouse_1">> \in BranchSet
    /\ <<gen, "cat_tail">> \in BranchSet

\* the subtrees hanging off the root that do not contain the player
UnrelatedSubtrees ==
    IF ~Truthy(rootObject) THEN {}
    ELSE {({s} \cup DescendantsOf(s)) :
             s \in {k \in SeqToSet(containedObjects[rootObject]) :
                        Player \notin ({k} \cup DescendantsOf(k))}}

\* C6 as stated: during a turn no object of a subtree of the root that does
\* not contain the player is in the branch or gets a reaction request.
C6_AsStated ==
    pc # "idle" =>
        \A subtree \in UnrelatedSubtrees : \A e \in subtree :
            e \notin BranchSet /\ CellId(e) \notin Asked

\* C6 amended: during a turn an object is in the branch exactly when it is an
\* ancestor of the player or a descendant of one, so with the root among the
\* player's ancestors every subtree hanging off the root is in the branch;
\* reaction requests go to the objects of the branch and to no other, and
\* once reaction resolution is over every object of the branch but the player
\* has had one.
C6_BranchIsAncestorSubtrees ==
    pc # "idle" =>
        /\ \A e \in StoreCells :
              e \in BranchSet <=>
                 \E a \in Ancestors(Player) : e \in {a} \cup DescendantsOf(a)
        /\ rootObject \in Ancestors(Player) =>
              \A subtree \in UnrelatedSubtrees : subtree \subseteq BranchSet
        /\ \A objId \in Asked : <<gen, objId>> \in BranchSet
        /\ Resolved =>
              \A e \in BranchSet : e # Player => CellId(e) \in Asked

\* C6 witness: room_1 hangs off the root ocean apart from sam's subtree; in
\* sam's turn it is in the branch and simulateObject has been called for it
C6_Witness ==
    /\ Resolved
    /\ playerObjectId = "sam"
    /\ InStore("room_1")
    /\ parent[<<gen, "room_1">>] = rootObject
    /\ {<<gen, "room_1">>} \in UnrelatedSubtrees
    /\ <<gen, "room_1">> \in BranchSet
    /\ "room_1" \in Asked
    /\ MapHas(results, "room_1")

\* this step is a call of processPlayerAction
TurnRequested == pc = "idle" /\ lastCall' = "processPlayerAction"

\* C9: a turn requested while no player is registered (the id unset, or not in
\* the store) returns an explanatory string and leaves the turn counter, every
\* ledger and every description as they were, with no capability call made.
C9_NoPlayerRejected ==
    [][(TurnRequested /\ (~TruthyId(playerObjectId) \/ ~InStore(playerObjectId)))
         => /\ lastResult' = IF ~TruthyId(playerObjectId)
                             THEN "No player object set."
                             ELSE "Player object not found."
            /\ simulationTime' = simulationTime
            /\ relationships' = relationships
            /\ description' = description
            /\ requests' = <<>>
            /\ pc' = "idle"]_vars

\* C9 witness: after one turn that left the boat an inferred edge with two
\* steps to go, a turn was requested for a player id that is not in the
\* store: the call returned its message, the counter is still 1 and the edge
\* has not advanced
C9_Witness ==
    /\ lastCall = "processPlayerAction"
    /\ lastResult = "Player object not found."
    /\ playerObjectId = GhostId
    /\ pc = "idle"
    /\ simulationTime = 1
    /\ \E i \in 1..Len(relationships[<<gen, "boat_1">>]) :
          /\ relationships[<<gen, "boat_1">>][i].relationship = "reached"
          /\ relationships[<<gen, "boat_1">>][i].progressTime = Integer(2)

\* C10: a turn requested while the player is in the store but has no parent
\* makes no state transition: the turn counter and every edge are as before
\* the call.
C10_ParentlessRejected ==
    [][(/\ TurnRequested
        /\ Truthy(Player)
        /\ ~Truthy(parent[Player]))
         => /\ simulationTime' = simulationTime
            /\ relationships' = relationships
            /\ pc' = "idle"]_vars

\* this step is the return of the processPlayerAction call in flight
TurnReturned == pc = "awaitNarrative" /\ pc' = "idle"

\* C11: when narration is reached and the capability is unavailable or its
\* call fails, processPlayerAction still returns: its result is the surfaced
\* error string, and the turn's counter increment and tick stay applied (the
\* return undoes neither, the counter is at least 1 and every edge of the
\* store has been through at least one tick).
C11_NarrationFailureSurfaced ==
    [][(TurnReturned /\ Narrates /\ llm # "responding")
         => /\ Includes(lastResult', "Narrative Error: ")
            /\ Includes(lastResult', IF llm = "unavailable"
                                     THEN "LLM not available"
                                     ELSE "LLM narrative generation failed")
            /\ simulationTime' = simulationTime
            /\ simulationTime >= 1
            /\ relationships' = relationships
            /\ edgeTicks' = edgeTicks
            /\ \A c \in StoreCells : \A i \in 1..Len(edgeTicks[c]) :
                  edgeTicks[c][i] >= 1]_vars

\* C11 witness: the second turn of sam ran with the capability failing and
\* returned the narrative error; the counter stands at 2 and the edge inferred
\* in the first turn (progress 0, two steps) has advanced to 1/2, one step left
C11_Witness ==
    /\ pc = "idle"
    /\ lastCall = "processPlayerAction"
    /\ llm = "failing"
    /\ Includes(lastResult, "Narrative Error: LLM narrative generation failed")
    /\ simulationTime = 2
    /\ \E i \in 1..Len(relationships[<<gen, "boat_1">>]) :
          /\ relationships[<<gen, "boat_1">>][i].relationship = "reached"
          /\ relationships[<<gen, "boat_1">>][i].progress = Num(1, 2)
          /\ relationships[<<gen, "boat_1">>][i].progressTime = Integer(1)

\* the proposals of a response: the five fields of each of its lines, the
\* names as they are looked up and the numbers as they are read
Proposals(text) ==
    LET lines == Split(Trim(text), "\n")
        fields == [i \in 1..Len(lines) |-> Split(Trim(lines[i]), "|")]
        five == SelectSeq(fields, LAMBDA parts : Len(parts) = 5)
    IN [i \in 1..Len(five) |->
          [source |-> ToLowerCase(Trim(five[i][1])),
           relationship |-> Trim(five[i][2]),
           target |-> ToLowerCase(Trim(five[i][3])),
           progress |-> parseFloat(five[i][4]),
           steps |-> parseInt(five[i][5])]]

\* the proposal's progress is no number or lies outside [0, 1], or its step
\* count is no number or lies below 1
OutOfRange(proposal) ==
    \/ isNaN(proposal.progress)
    \/ Less(proposal.progress, Integer(0))
    \/ Less(Integer(1), proposal.progress)
    \/ isNaN(proposal.steps)
    \/ Less(proposal.steps, Integer(1))

\* per response, its proposals in range
InRange ==
    [text \in InferenceResponses |->
        SelectSeq(Proposals(text), LAMBDA proposal : ~OutOfRange(proposal))]

\* the edge e on the ledger of c is what the proposal asks for, value by value
EdgeOfProposal(c, e, proposal) ==
    /\ getObjectByName(proposal.source) = c
    /\ Truthy(getObjectByName(proposal.target))
    /\ e.to = CellId(getObjectByName(proposal.target))
    /\ e.relationship = proposal.relationship
    /\ e.progress = proposal.progress
    /\ e.progressTime = proposal.steps

\* this step is the inference call of the turn settling with a response
InferenceAnswered ==
    pc = "awaitInference" /\ pc' = "narrate" /\ llm = "responding"

\* C12: when the inference response is applied, every edge on a ledger is
\* either an edge that was there, untouched, or the edge of a proposal of the
\* response that is in range, with the proposal's own values; every in-range
\* proposal whose names resolve is on its source's ledger; so a proposal out
\* of range changes no ledger, in clamped form or any other.
C12_InvalidProposalsDiscarded ==
    [][InferenceAnswered =>
         LET valid == InRange[response']
         IN /\ \A c \in StoreCells : \A i \in 1..Len(relationships'[c]) :
                  \/ \E j \in 1..Len(relationships[c]) :
                        /\ relationships[c][j] = relationships'[c][i]
                        /\ edgeTicks[c][j] = edgeTicks'[c][i]
                  \/ \E k \in 1..Len(valid) :
                        /\ EdgeOfProposal(c, relationships'[c][i], valid[k])
                        /\ edgeTicks'[c][i] = 0
            /\ \A k \in 1..Len(valid) :
                  LET c == getObjectByName(valid[k].source) IN
                  (Truthy(c) /\ Truthy(getObjectByName(valid[k].target)))
                  => \E i \in 1..Len(relationships'[c]) :
                        /\ EdgeOfProposal(c, relationships'[c][i], valid[k])
                        /\ edgeTicks'[c][i] = 0
            /\ \A c \in StoreCells :
                  (\A k \in 1..Len(valid) : getObjectByName(valid[k].source) # c)
                  => relationships'[c] = relationships[c]]_vars

\* C12 witness: the response held a proposal with progress 1.5, one with 0
\* steps and one whose steps are no number, all three for sam, and an
\* in-range one for the boat; sam's ledger is empty and the boat holds the
\* edge asked for, progress 0 and two steps, not yet ticked
C12_Witness ==
    /\ pc = "narrate"
    /\ response \in InferenceResponses
    /\ Len(Proposals(response)) = 4
    /\ Len(InRange[response]) = 1
    /\ relationships[<<gen, "sam">>] = <<>>
    /\ \E i \in 1..Len(relationships[<<gen, "boat_1">>]) :
          /\ relationships[<<gen, "boat_1">>][i].relationship = "reached"
          /\ relationships[<<gen, "boat_1">>][i].to = "dock_1"
          /\ relationships[<<gen, "boat_1">>][i].progress = Integer(0)
          /\ relationships[<<gen, "boat_1">>][i].progressTime = Integer(2)
          /\ edgeTicks[<<gen, "boat_1">>][i] = 0

\* every number of every edge is a number or null, as JSON can carry it
NoNaN ==
    \A c \in StoreCells : \A i \in 1..Len(relationships[c]) :
        /\ ~isNaN(relationships[c][i].progress)
        /\ ~isNaN(relationships[c][i].initialProgress)

\* the world is well formed: consistent containment, no cycle, the root in
\* the store, numbers JSON can carry
WellFormed ==
    /\ C1_ContainmentConsistent
    /\ C2_Forest
    /\ rootObject \in StoreCells
    /\ NoNaN

\* this step is a load, typed between turns, of the snapshot of the world as
\* it stands
RoundTrip ==
    /\ pc = "idle" /\ pc' = "idle"
    /\ lastResult' = "loaded"
    /\ saved = <<JSONValue(export)>>

\* C13: round trip.  Importing the snapshot of a well-formed world leaves the
\* same entity ids, the same parent for every entity, the same set of edges
\* on every entity, the same root id and the same turn counter, and the
\* snapshot taken afterwards equals the one imported.
C13_RoundTrip ==
    [][(RoundTrip /\ WellFormed) =>
         /\ SeqToSet(objects') = SeqToSet(objects)
         /\ \A i \in 1..Len(objects) :
               LET before == <<gen, objects[i]>>
                   after == <<gen', objects[i]>>
               IN /\ CellId(parent'[after]) = CellId(parent[before])
                  /\ Truthy(parent'[after]) =>
                        /\ parent'[after] \in StoreCells'
                        /\ Count(containedObjects'[parent'[after]], after) = 1
                  /\ SeqToSet(relationships'[after]) = SeqToSet(relationships[before])
         /\ CellId(rootObject') = CellId(rootObject)
         /\ rootObject' \in StoreCells'
         /\ simulationTime' = simulationTime
         /\ export' = saved[1]]_vars

\* C13 witness: the nine entities of the starting scenario after one
\* turn, with the wheel moved under the lighthouse, whose entry comes after
\* the wheel's, and the boat holding an edge half way through its two steps;
\* the world was saved and loaded and its snapshot equals the saved one
C13_Witness ==
    /\ lastResult = "loaded"
    /\ saved = <<JSONValue(export)>>
    /\ WellFormed
    /\ Len(objects) = 9
    /\ simulationTime = 1
    /\ parent[<<gen, "wheel">>] = <<gen, "lighthouse_1">>
    /\ \E i \in 1..Len(relationships[<<gen, "boat_1">>]) :
          /\ relationships[<<gen, "boat_1">>][i].relationship = "reached"
          /\ relationships[<<gen, "boat_1">>][i].progress = Num(1, 2)
          /\ relationships[<<gen, "boat_1">>][i].progressTime = Integer(1)
          /\ relationships[<<gen, "boat_1">>][i].initialProgressTime = Integer(2)

(***************************************************************************)
(* C14                                                                     *)
(***************************************************************************)
\* the processPlayerAction calls that have ticked and not yet returned
InFlight == Len(suspended) + (IF pc = "idle" THEN 0 ELSE 1)

\* C14: turns never overlap: at most one processPlayerAction call is between
\* its tick and its narration at any time
C14_TurnsNeverOverlap == InFlight <= 1

(***************************************************************************)
(* C15                                                                     *)
(***************************************************************************)
\* a step that accepts a turn
TurnAccepted == pc = "idle" /\ pc' # "idle"

\* the edge still has steps to run
Live(rel) ==
    /\ rel.progressTime # NullNum
    /\ Less(Integer(0), rel.progressTime)
    /\ Less(rel.progress, Integer(1))

\* the edge is as addRelationship left it: no tick has run over it
Untouched(rel) ==
    rel.progress = rel.initialProgress /\ rel.progressTime = rel.initialProgressTime

\* C15: the step that accepts a turn runs one tick over every edge of every
\* store object, in the branch or not, before any request of the turn is
\* issued; no later step of the turn ticks an edge or the counter again
C15_TickOnceBeforeReactions ==
    [][/\ TurnAccepted =>
            /\ simulationTime' = simulationTime + 1
            /\ requests' = <<>>
            /\ \A c \in StoreCells :
                  /\ Len(relationships'[c]) = Len(relationships[c])
                  /\ \A i \in 1..Len(relationships[c]) :
                        IF Live(relationships[c][i])
                        THEN relationships'[c][i].progressTime =
                                Minus(relationships[c][i].progressTime, Integer(1))
                        ELSE relationships'[c][i] = relationships[c][i]
       /\ pc # "idle" =>
            /\ simulationTime' = simulationTime
            /\ relationships' # relationships => pc = "awaitInference"
            /\ \A c \in StoreCells :
                  \A i \in 1..Len(relationships'[c]) :
                     \/ \E j \in 1..Len(relationships[c]) :
                           relationships'[c][i] = relationships[c][j]
                     \/ Untouched(relationships'[c][i])
      ]_vars

\* a turn accepted for a player without a branch has ticked the boat's edge,
\* which is outside the branch, from 2 steps to 1 and has issued no request
C15_Witness ==
    /\ pc = "analyzeAndUpdateRelationships"
    /\ requests = <<>>
    /\ \E c \in StoreCells \ SeqToSet(branch) :
          \E i \in 1..Len(relationships[c]) :
             /\ relationships[c][i].initialProgressTime = Integer(2)
             /\ relationships[c][i].progressTime = Integer(1)
             /\ relationships[c][i].progress = Num(1, 2)

(***************************************************************************)
(* C16                                                                     *)
(***************************************************************************)
\* what processPlayerAction returns once narration is reached
IsNarrative(result) ==
    \/ result \in NarrativeReplies
    \/ Includes(result, "Narrative Error: ")
    \/ result = "\nYou float in an empty void.\n"
    \/ result = "\nSomething seems wrong - you can't sense yourself.\n"

\* C16: every accepted turn comes back to idle, and a call in flight ends
\* only by returning, from the narration stage, a narrative string: a failed
\* inference or rewrite call does not end it
C16_TurnCompletes ==
    /\ (pc # "idle") ~> (pc = "idle")
    /\ [][(pc # "idle" /\ pc' = "idle")
            => /\ pc = "awaitNarrative"
               /\ IsNarrative(lastResult')]_vars
    /\ [][(pc = "awaitInference" /\ llm = "failing")
            => /\ pc' = "narrate"
               /\ relationships' = relationships]_vars

\* the inference call of the turn has failed and the turn goes on to narrate
C16_Witness ==
    /\ pc = "narrate"
    /\ llm = "failing"
    /\ response = ""
    /\ \E i \in 1..Len(requests) : requests[i].kind = "inference"

(***************************************************************************)
(* C17                                                                     *)
(***************************************************************************)
\* this step is a createObject call that stored a new object
Created == Len(objects') = Len(objects) + 1 /\ lastResult' = "object"

\* C17: after a successful createObject the new object is in the store and
\* is either listed once among the children of its parent or is the root
C17_CreatedIsPlaced ==
    [][Created =>
         LET obj == <<gen', objects'[Len(objects')]>> IN
         /\ obj \in cells'
         /\ \/ rootObject' = obj
            \/ /\ Truthy(parent'[obj])
               /\ Count(containedObjects'[parent'[obj]], obj) = 1
      ]_vars

(***************************************************************************)
(* C18                                                                     *)
(***************************************************************************)
\* the store objects whose id, or whose display name, equals n without
\* regard to case
IdMatches(n) ==
    {c \in StoreCells : ToLowerCase(CellId(c)) = ToLowerCase(n)}
NameMatches(n) ==
    {c \in StoreCells : ToLowerCase(name[c]) = ToLowerCase(n)}

\* C18: getObjectByName(n) is the object with id n if there is one, else an
\* object whose id equals n without regard to case if there is one, else an
\* object whose display name does, else null
C18_IdBeforeName ==
    \A n \in LookupNames :
        LET found == getObjectByName(n) IN
        IF InStore(n) THEN found = getObject(n)
        ELSE IF IdMatches(n) # {} THEN found \in IdMatches(n)
        ELSE IF NameMatches(n) # {} THEN found \in NameMatches(n)
        ELSE found = NullCell

(***************************************************************************)
(* C19                                                                     *)
(***************************************************************************)
\* a whole number >= 0
IsCount(x) == x # NullNum /\ x[2] = 1 /\ x[1] >= 0

\* C19: the progress of every edge of the store is null or a number in
\* [0, 1], and the remaining steps of an edge that has progress are a whole
\* number >= 0 (an edge stored without a steps counter is not held against
\* the claim)
C19_ProgressInRange ==
    \A c \in StoreCells : \A i \in 1..Len(relationships[c]) :
        LET rel == relationships[c][i] IN
        /\ \/ rel.progress = NullNum
           \/ /\ ~isNaN(rel.progress)
              /\ LessEq(Integer(0), rel.progress)
              /\ LessEq(rel.progress, Integer(1))
        /\ (rel.progress # NullNum /\ rel.progressTime # NullNum)
              => IsCount(rel.progressTime)

(***************************************************************************)
(* C20                                                                     *)
(***************************************************************************)
\* C20: a moveObject call whose object id or destination id names no stored
\* object returns false, a createObject call with an id already in the store
\* returns null, and neither changes the store, a parent link or a child list
C20_FailedLookupChangesNothing ==
    [][/\ \A objectId \in ForestInputs, newParentId \in ForestInputs :
            (/\ \/ ~InStore(objectId)
                \/ TruthyId(newParentId) /\ ~InStore(newParentId)
             /\ moveObject(objectId, newParentId))
            => /\ lastResult' = "false"
               /\ UNCHANGED <<objects, cells, parent, containedObjects,
                              rootObject>>
       /\ \A id \in ForestIds, parentId \in ForestInputs :
            (/\ InStore(id)
             /\ createObject(id, DemoName(id), DemoDescription(id), parentId))
            => /\ lastResult' = "null"
               /\ UNCHANGED <<objects, cells, parent, containedObjects,
                              rootObject>>
      ]_vars

\* a call has just failed on a store that holds an object inside another
C20_Witness ==
    /\ lastResult \in {"false", "null"}
    /\ \E c \in StoreCells :
          /\ Truthy(parent[c])
          /\ Count(containedObjects[parent[c]], c) = 1

(***************************************************************************)
(* C21                                                                     *)
(***************************************************************************)
\* the proposal's source and target both name a store object
Resolves(proposal) ==
    /\ Truthy(getObjectByName(proposal.source))
    /\ Truthy(getObjectByName(proposal.target))

\* C21: when the response applied holds a proposal whose source names no
\* object, the turn goes on to narration, every other proposal of the
\* response that is in range and resolves is on its source's ledger, and a
\* ledger differs only where such a proposal names it
C21_UnresolvedSourceDropped ==
    [][InferenceAnswered =>
         LET valid == InRange[response'] IN
         (\E k \in 1..Len(valid) : ~Truthy(getObjectByName(valid[k].source)))
         => /\ pc' = "narrate"
            /\ lastResult' = lastResult
            /\ \A k \in 1..Len(valid) :
                  Resolves(valid[k])
                  => \E i \in 1..Len(relationships'[getObjectByName(valid[k].source)]) :
                        EdgeOfProposal(getObjectByName(valid[k].source),
                           relationships'[getObjectByName(valid[k].source)][i],
                           valid[k])
            /\ \A c \in StoreCells :
                  relationships'[c] # relationships[c]
                  => \E k \in 1..Len(valid) :
                        Resolves(valid[k]) /\ getObjectByName(valid[k].source) = c
      ]_vars

\* the response named nobody as the source of its first proposal; the boat
\* holds the edge of the second and the turn is at narration
C21_Witness ==
    /\ pc = "narrate"
    /\ response \in InferenceResponses
    /\ Len(InRange[response]) = 2
    /\ ~Truthy(getObjectByName(InRange[response][1].source))
    /\ \E i \in 1..Len(relationships[<<gen, "boat_1">>]) :
          /\ relationships[<<gen, "boat_1">>][i].relationship = "reached"
          /\ edgeTicks[<<gen, "boat_1">>][i] = 0

(***************************************************************************)
(* C22                                                                     *)
(***************************************************************************)
\* the narration requests of the turn
NarrationRequests ==
    {requests[i] : i \in {j \in 1..Len(requests) : requests[j].kind = "narration"}}

\* the edges whose target id is not in the store
Dangling(c) ==
    {i \in 1..Len(relationships[c]) : ~InStore(relationships[c][i].to)}

\* how the target of an edge is reported: by its name, or by its id if it is
\* not in the store
ReportedTarget(rel) ==
    IF InStore(rel.to) THEN name[getObject(rel.to)] ELSE rel.to

\* this step is the terminal's look
Looked ==
    /\ lastCall' = "describe"
    /\ lastResult' # lastResult
    /\ Includes(lastResult', "===")

\* C22 as stated: the narration context reports the target of a dangling
\* edge as unknown
C22_AsStated ==
    \A r \in NarrationRequests :
        \A i \in 1..Len(r.relationships) :
            \/ r.relationships[i].to = "unknown"
            \/ \E c \in StoreCells : name[c] = r.relationships[i].to

\* C22: with edges whose target is not in the store, the tick of an accepted
\* turn advances such an edge like any other, the narration context holds
\* every edge of the player and of its container, and look prints every edge
\* of the objects it lists, a dangling target given by its id in place of a
\* name
C22_DanglingTolerated ==
    [][/\ TurnAccepted =>
            \A c \in StoreCells : \A i \in Dangling(c) :
                Live(relationships[c][i])
                => relationships'[c][i].progressTime =
                      Minus(relationships[c][i].progressTime, Integer(1))
       /\ (pc = "narrate" /\ Narrates /\ llm # "unavailable") =>
            /\ pc' = "awaitNarrative"
            /\ \E r \in NarrationRequests' :
                  \A c \in {Player, parent[Player]} :
                     \A i \in 1..Len(relationships[c]) :
                        \E k \in 1..Len(r.relationships) :
                           /\ r.relationships[k].from = name[c]
                           /\ r.relationships[k].relationship =
                                 relationships[c][i].relationship
                           /\ r.relationships[k].to =
                                 ReportedTarget(relationships[c][i])
       /\ Looked =>
            \A c \in StoreCells :
               (Truthy(parent[c])
                  /\ Includes(lastResult', "=== " \o name[parent[c]] \o " ==="))
               => \A i \in 1..Len(relationships[c]) :
                     Includes(lastResult',
                        "- " \o relationships[c][i].relationship \o " "
                             \o ReportedTarget(relationships[c][i]))
      ]_vars

\* the narration request of the turn holds sam's edge to the missing ghost,
\* ticked once in this turn, with the id as its target
C22_Witness ==
    /\ pc = "awaitNarrative"
    /\ \E r \in NarrationRequests :
          \E k \in 1..Len(r.relationships) :
             /\ r.relationships[k].from = "Sam"
             /\ r.relationships[k].to = GhostId
             /\ r.relationships[k].progressTime = Integer(1)

\* the ids results holds a reaction for
Published == {results[i].objId : i \in 1..Len(results)}

\* the ids of the depth group whose calls are pending
Pending == {CellId(promises[i].obj) : i \in 1..Len(promises)}

\* two objects of the branch that simulateBottomUp puts in one depth group
SameGroup(a, b) ==
    /\ a \in BranchSet
    /\ b \in BranchSet
    /\ calculateObjectDepth(a) = calculateObjectDepth(b)

\* C23: the depth-group barrier.  Starting a group issues the calls of all
\* its objects against the results published so far and publishes nothing;
\* results change while the calls are pending only by publishing the whole
\* group at once, which is also the only way on to the next group; so no
\* reaction request is made with the reaction of an object of its own group
\* known.
C23_DepthGroupBarrier ==
    [][/\ (pc = "simulateBottomUp" /\ pc' = "awaitReactions") =>
            /\ results' = results
            /\ Pending' = {CellId(c) : c \in SeqToSet(Head(depthGroups))}
            /\ \A k \in (Len(requests) + 1)..Len(requests') :
                  /\ requests'[k].kind = "reaction"
                  /\ requests'[k].objId \in Pending'
                  /\ requests'[k].known = Published
                  /\ requests'[k].known \cap Pending' = {}
       /\ (pc = "awaitReactions" /\ results' # results) =>
            /\ promises' = <<>>
            /\ Published' = Published \cup Pending
       /\ (pc = "awaitReactions" /\ pc' # "awaitReactions") =>
            /\ Pending \subseteq Published'
            /\ requests' = requests
      ]_vars

\* two capability calls of one depth group have settled and both reactions
\* are published, after the calls of an earlier group
C23_Witness ==
    /\ pc = "analyzeAndUpdateRelationships"
    /\ llm = "responding"
    /\ \E i, j \in 1..Len(requests) :
          /\ i # j
          /\ requests[i].kind = "reaction"
          /\ requests[j].kind = "reaction"
          /\ SameGroup(getObject(requests[i].objId),
                       getObject(requests[j].objId))
          /\ {requests[i].objId, requests[j].objId} \subseteq Published
          /\ requests[i].known # {}

\* the reaction a pending call stores when the capability is not used or
\* throws for it
LocalFallback(call) ==
    IF call.via = "fallback"
    THEN getBasicReaction(CellId(call.obj), playerAction, call.childActions)
    ELSE fallbackReaction(CellId(call.obj), playerAction, call.childActions)

\* C24: reaction resolution.  When a depth group settles, the player's entry
\* is the action string, the entry of an object with no capability is its
\* local fallback phrase, the entry of any other object is the capability's
\* reaction or, when the call threw, the local fallback phrase; at least one
\* call throws while the capability fails; the entries published before stay
\* as they were and the turn goes on.  Once resolution is over results holds
\* one entry for each object of the branch and no other entry.
C24_OneReactionEach ==
    [][/\ (pc = "awaitReactions" /\ pc' # "awaitReactions") =>
            /\ pc' \in {"simulateBottomUp", "analyzeAndUpdateRelationships"}
            /\ \A id \in Published : MapGet(results', id) = MapGet(results, id)
            /\ \A i \in 1..Len(promises) :
                  LET stored == MapGet(results', CellId(promises[i].obj)) IN
                  CASE promises[i].via = "player" -> stored = playerAction
                    [] promises[i].via = "fallback" ->
                         stored = LocalFallback(promises[i])
                    [] OTHER ->
                         /\ stored \in LLMReactions \cup {LocalFallback(promises[i])}
                         /\ llm = "responding" => stored \in LLMReactions
            /\ (llm = "failing" /\ Pending # {playerObjectId}) =>
                  \E i \in 1..Len(promises) :
                     /\ promises[i].via = "capability"
                     /\ MapGet(results', CellId(promises[i].obj))
                           = LocalFallback(promises[i])
       /\ (pc' = "analyzeAndUpdateRelationships") =>
            /\ Published' = {CellId(c) : c \in BranchSet'}
            /\ Len(results') = Cardinality(BranchSet')
            /\ playerObjectId' \in Published'
               => MapGet(results', playerObjectId') = playerAction'
      ]_vars

\* a group of two capability calls has settled with one call thrown and the
\* other answered: one entry is the fallback phrase, the other the
\* capability's reaction
C24_Witness ==
    /\ pc = "analyzeAndUpdateRelationships"
    /\ llm = "failing"
    /\ MapGet(results, "wheel") = "creaks as it turns"
    /\ MapGet(results, "cat_tail") \in LLMReactions
    /\ MapGet(results, "sam") = playerAction

\* this step is one run of progressTimeBasedRelationships
Ticked ==
    /\ edgeTicks' = TickedOnce(edgeTicks)
    /\ edgeTicks' # edgeTicks

\* an edge the tick has nothing to do for: no steps remaining, steps not
\* tracked, or progress already 1.0
AtRest(rel) ==
    \/ rel.progressTime = NullNum
    \/ rel.progressTime = Integer(0)
    \/ rel.progress = Integer(1)

\* C25: a tick keeps every object's edge list as long as it was and every
\* edge's type and target, and leaves an edge with no steps remaining, with
\* untracked steps or with progress 1.0 exactly as it was
C25_TickFrame ==
    [][Ticked =>
          \A c \in cells :
             /\ Len(relationships'[c]) = Len(relationships[c])
             /\ \A i \in 1..Len(relationships[c]) :
                   /\ relationships'[c][i].relationship
                         = relationships[c][i].relationship
                   /\ relationships'[c][i].to = relationships[c][i].to
                   /\ AtRest(relationships[c][i])
                      => relationships'[c][i] = relationships[c][i]]_vars

\* after two ticks an edge created with progress 1/2 and total steps 0 is
\* as it was created, next to an edge created with one step that completed
\* at the first tick
C25_Witness ==
    \E c \in StoreCells : \E i, j \in 1..Len(relationships[c]) :
        /\ relationships[c][i].initialProgressTime = Integer(0)
        /\ relationships[c][i].progressTime = Integer(0)
        /\ relationships[c][i].progress = Num(1, 2)
        /\ edgeTicks[c][i] = 2
        /\ relationships[c][j].initialProgressTime = Integer(1)
        /\ relationships[c][j].initialProgress = Integer(0)
        /\ relationships[c][j].progress = Integer(1)
        /\ edgeTicks[c][j] = 2

\* min(1, P + (1 - P) * (N - remaining) / N) of the stored initial pair
ClosedForm(rel) ==
    CHOOSE progress \in
        {MathMin(Integer(1), Plus(rel.initialProgress, progressGain)) :
            progressGain \in
               {Over(product, rel.initialProgressTime) :
                   product \in
                      {Times(room, timeElapsed) :
                          room \in {Minus(Integer(1), rel.initialProgress)},
                          timeElapsed \in {Minus(rel.initialProgressTime,
                                                 rel.progressTime)}}}} : TRUE

\* an edge created with numeric progress in [0, 1] and total steps > 0 has
\* the progress its initial pair and its remaining steps give
OnClosedForm(rel) ==
    Progressing(rel) => rel.progress = ClosedForm(rel)

\* C26: for an edge created with numeric progress P in [0, 1] and total
\* steps N > 0, progress is min(1, P + (1 - P) * (N - remaining) / N) in
\* every state (it is so at the start and for every edge a step writes),
\* and a tick applied while steps remain and progress is below 1 makes
\* progress strictly larger and remaining steps one less
C26_ClosedFormProgress ==
    /\ \A c \in StoreCells : \A i \in 1..Len(relationships[c]) :
          OnClosedForm(relationships[c][i])
    /\ [][/\ \A c \in StoreCells : \A i \in 1..Len(relationships'[c]) :
                \/ /\ i \in 1..Len(relationships[c])
                   /\ relationships'[c][i] = relationships[c][i]
                \/ OnClosedForm(relationships'[c][i])
          /\ Ticked =>
                \A c \in StoreCells : \A i \in 1..Len(relationships[c]) :
                   (/\ Progressing(relationships[c][i])
                    /\ Less(Integer(0), relationships[c][i].progressTime)
                    /\ Less(relationships[c][i].progress, Integer(1)))
                   => /\ Less(relationships[c][i].progress,
                              relationships'[c][i].progress)
                      /\ relationships'[c][i].progressTime
                            = Minus(relationships[c][i].progressTime, Integer(1))
         ]_vars

\* an edge created with progress 1/2 and two steps has been ticked once: it
\* stands at 3/4 with one step remaining
C26_Witness ==
    \E c \in StoreCells : \E i \in 1..Len(relationships[c]) :
        /\ relationships[c][i].initialProgress = Num(1, 2)
        /\ relationships[c][i].initialProgressTime = Integer(2)
        /\ edgeTicks[c][i] = 1
        /\ relationships[c][i].progress = Num(3, 4)
        /\ relationships[c][i].progressTime = Integer(1)

\* the objects narratePlayerExperience collects edges from: the player, its
\* container, its siblings, and the direct children of all these
Visible ==
    LET near == {Player, parent[Player]}
                   \cup SeqToSet(containedObjects[parent[Player]])
    IN near \cup UNION {SeqToSet(containedObjects[c]) : c \in near}

\* the edges of the store upserted since the last tick
Fresh ==
    UNION {{<<c, i>> : i \in {j \in 1..Len(relationships[c]) :
                                 edgeTicks[c][j] = 0}} : c \in StoreCells}

\* the narration context r holds the edge at position i of c
InContext(r, c, i) ==
    \E k \in 1..Len(r.relationships) :
        /\ r.relationships[k].from = name[c]
        /\ r.relationships[k].relationship = relationships[c][i].relationship
        /\ r.relationships[k].to = ReportedTarget(relationships[c][i])
        /\ r.relationships[k].progress = relationships[c][i].progress
        /\ r.relationships[k].progressTime = relationships[c][i].progressTime

\* C27 as stated: every edge upserted by the inference of the turn is in the
\* relationship context passed to the turn's narration
C27_AsStated ==
    (pc = "awaitNarrative") =>
        \A r \in NarrationRequests : \A e \in Fresh : InContext(r, e[1], e[2])

\* C27: the phases of a turn.  The tick runs when the turn is accepted and at
\* no other step; every reaction request is made before the inference is
\* applied and none after it, with the ledgers as the tick left them; an
\* edge the inference upserts stays as it was upserted until the turn is
\* over and advances at the tick of the next turn; and the context of the
\* turn's narration holds it if its source is the player, the player's
\* container, a sibling of the player or a direct child of one of these.
C27_PhaseOrder ==
    [][/\ (pc # "idle" /\ pc # "awaitInference") =>
            /\ relationships' = relationships
            /\ edgeTicks' = edgeTicks
       /\ (pc \in {"awaitInference", "narrate", "awaitNarrative"}) =>
            \A k \in (Len(requests) + 1)..Len(requests') :
               requests'[k].kind # "reaction"
       /\ (pc = "awaitInference") =>
            /\ requests' = requests
            /\ \A c \in StoreCells : \A i \in 1..Len(relationships'[c]) :
                  \/ /\ edgeTicks'[c][i] = 0
                     /\ Untouched(relationships'[c][i])
                  \/ \E j \in 1..Len(relationships[c]) :
                        /\ relationships'[c][i] = relationships[c][j]
                        /\ edgeTicks'[c][i] = edgeTicks[c][j]
                        /\ edgeTicks[c][j] > 0
       /\ TurnAccepted =>
            \A e \in Fresh :
               /\ edgeTicks'[e[1]][e[2]] = 1
               /\ Live(relationships[e[1]][e[2]])
                  => relationships'[e[1]][e[2]].progressTime =
                        Minus(relationships[e[1]][e[2]].progressTime, Integer(1))
       /\ (pc = "narrate" /\ Narrates /\ llm # "unavailable") =>
            \E r \in NarrationRequests' :
               \A e \in Fresh : e[1] \in Visible => InContext(r, e[1], e[2])
      ]_vars

\* the narration of the turn has been requested with the edge the inference
\* of this turn put on the boat in its context, untouched by any tick, and
\* every reaction request of the turn came before
C27_Witness ==
    /\ pc = "awaitNarrative"
    /\ playerObjectId = "sam"
    /\ Asked # {}
    /\ \E r \in NarrationRequests :
          \E e \in Fresh :
             /\ e[1] = <<gen, "boat_1">>
             /\ relationships[e[1]][e[2]].relationship = "reached"
             /\ Untouched(relationships[e[1]][e[2]])
             /\ InContext(r, e[1], e[2])

\* the ids the rewrite calls of the turn in flight were made for
RewriteRequests ==
    {k \in 1..Len(requests) : requests[k].kind = "rewrite"}

\* text is what a reply that passes the check of parseDescriptionResponse
\* leaves: at least 10 characters once quotes and outer blanks are gone, no
\* 'updated description' in it, and the text is the reply's, up to the quotes
\* and a closing full stop
AcceptedFrom(text, reply) ==
    /\ Len(Trim(RemoveQuotes(reply))) >= 10
    /\ ~Includes(ToLowerCase(reply), "updated description")
    /\ Includes(reply, SubSeq(text, 1, Len(text) - 1))
    /\ Len(text) >= 10
    /\ ~Includes(ToLowerCase(text), "updated description")

\* C28: descriptions change only when a turn returns.  A description that
\* differs after the return belongs to an object of the branch whose stored
\* reaction is not 'remains still', for which one rewrite call was made, and
\* is the text of a reply that passes the check; with every rewrite call
\* failing no description changes; and the rewrite calls of a turn are for
\* different objects.
C28_RewriteFrame ==
    [][/\ (pc # "idle" /\ pc # "awaitNarrative") => description' = description
       /\ \A k, l \in RewriteRequests' :
             requests'[k].objId = requests'[l].objId => k = l
       /\ TurnReturned =>
            /\ \A c \in DOMAIN description :
                  description'[c] # description[c] =>
                     /\ c \in BranchSet
                     /\ MapHas(results, CellId(c))
                     /\ MapGet(results, CellId(c)) # "remains still"
                     /\ \E k \in RewriteRequests : requests[k].objId = CellId(c)
                     /\ \E reply \in DescriptionReplies :
                           AcceptedFrom(description'[c], reply)
            /\ llm \in {"unavailable", "failing"} => description' = description
      ]_vars

\* a turn has returned with the wheel rewritten and the boat, whose rewrite
\* call failed or was turned down, as it was, like the ocean, which remained
\* still, and the room away from the player
C28_Witness ==
    /\ pc = "idle"
    /\ lastCall = "processPlayerAction"
    /\ llm = "intermittent"
    /\ InStore("room_1")
    /\ ~Truthy(parent[<<gen, "room_1">>])
    /\ description[<<gen, "wheel">>] = "Freshly marked by what just happened."
    /\ description[<<gen, "boat_1">>] = DemoDescription("boat_1")
    /\ description[<<gen, "ocean">>] = DemoDescription("ocean")
    /\ description[<<gen, "room_1">>] = "A room far from the sea."

\* the ids of the entries of the save
SavedIds == {saved[1].objects[i].id : i \in 1..Len(saved[1].objects)}

\* C29: what import leaves depends on the entries it is given and not on
\* their order.  After a load of the save in any arrangement, every object
\* of the store is one entry of the save, with that entry's name and edges;
\* its parent is the object of the entry's parent id if the store holds one
\* and it has no parent otherwise; each object is listed by its parent and
\* by no other object; and the root is the object of the save's root id (the
\* root stays as it was if the save has none).
C29_ImportOrderFree ==
    [][(lastResult' = "loaded") =>
          /\ SeqToSet(objects') \subseteq SavedIds
          /\ \A i \in 1..Len(saved[1].objects) :
                LET entry == saved[1].objects[i]
                    obj == <<gen', entry.id>>
                IN entry.id \in SeqToSet(objects') =>
                      /\ name'[obj] = entry.name
                      /\ relationships'[obj] = entry.relationships
                      /\ parent'[obj] =
                            IF /\ TruthyId(entry.parentId)
                               /\ entry.parentId \in SeqToSet(objects')
                            THEN <<gen', entry.parentId>>
                            ELSE NullCell
                      /\ \A p \in cells' :
                            obj \in SeqToSet(containedObjects'[p])
                            <=> p = parent'[obj]
          /\ rootObject' =
                IF TruthyId(saved[1].rootObjectId)
                THEN Get(objects', gen', saved[1].rootObjectId)
                ELSE rootObject
      ]_vars

\* a save of three objects was loaded with the entry of dock_1 taken out and
\* sam listed before boat_1: sam is in the boat, and the boat, whose parent
\* id names dock_1, has no parent
C29_Witness ==
    /\ lastResult = "loaded"
    /\ saved # <<>>
    /\ Len(saved[1].objects) = 3
    /\ objects = <<"sam", "boat_1">>
    /\ parent[<<gen, "sam">>] = <<gen, "boat_1">>
    /\ parent[<<gen, "boat_1">>] = NullCell
    /\ \E i \in 1..3 : /\ saved[1].objects[i].id = "boat_1"
                        /\ saved[1].objects[i].parentId = "dock_1"
    /\ Len(relationships[<<gen, "boat_1">>]) = 1

\* C30: the designated root is null or an object that is in the store and
\* has no parent
C30_RootIsTopLevel ==
    \/ ~Truthy(rootObject)
    \/ /\ rootObject \in StoreCells
       /\ ~Truthy(parent[rootObject])

====
